---- MODULE Spec2Model ----
(***************************************************************************)
(* Orion content pipeline: the stages and the quality gate of              *)
(* PipelineRunner (python/orion/pipeline/run_pipeline.py), the generation  *)
(* stages it calls (python/orion/enrich.py), the WordPress publisher       *)
(* (python/orion/publish/publisher_wp.py) and the versioned global         *)
(* rulebook with its conservative updater (orion.research.update_rulebook, *)
(* known from python/tests/phase7/test_research_module.py), the weighted   *)
(* quality score (python/orion/quality/checker_backup.py), the multi-site  *)
(* configuration (python/orion/automate/multisite.py), the multi-site      *)
(* batch runner (python/orion/automate/run_pipeline_multisite.py), the     *)
(* single-site automation run (python/orion/automate/run_pipeline.py),    *)
(* the HTTP calls of the API client and of the WordPress publisher, the    *)
(* topic validation of bulk_create_topics (python/orion/api_client.py),    *)
(* the topic-count range of a SiteConfig and the topic generator           *)
(* (python/orion/gather_trends.py).                                        *)
(***************************************************************************)
EXTENDS Integers, Sequences, FiniteSets, TLC

VARIABLES
    \* ---- PipelineRunner and its collaborators ----
    wp_publisher,       \* TRUE iff self.wp_publisher is a WordPressPublisher, FALSE iff None
    pc,                 \* position inside run_complete_pipeline
    topic_id,           \* argument topic_id of the run in progress (0: no run yet)
    publish,            \* argument publish
    global_rulebook,    \* local global_rulebook (the 'rules' of /api/rulebook)
    override_rulebook,  \* local override_rulebook (the topic's flag ignore_rulebook)
    outline_result,     \* local outline_result
    draft_result,       \* local draft_result
    final_content,      \* local final_content
    stages_run,         \* the stages the run in progress has called, in call order
    quality_result,     \* local quality_result
    publish_decision,   \* local publish_decision
    wordpress_result,   \* local wordpress_result
    run_result,         \* the dict run_complete_pipeline returns
    create_post_calls,  \* every call self.wp_publisher.create_post(...) made, in order
    wp_posts,           \* every post whose payload WordPressPublisher.create_post built
    \* ---- RulebookStore / RulebookUpdater ----
    history,            \* the append-only sequence of rulebook version records
    \* ---- check_quality ----
    article,            \* what the analyzers find in the article handed to check_quality
    score_rulebook,     \* argument rulebook of check_quality
    score_result,       \* the sub-scores and final_score check_quality computes
    \* ---- multi-site configuration ----
    environ,            \* os.environ: variable name -> value
    site_list,          \* the list get_site_list returned (empty: not called yet)
    site_config,        \* the SiteConfig load_site_config returned last
    \* ---- MultiSitePipelineRunner ----
    self_sites,         \* self.sites: the site keys of the batch, in submission order
    parallel,           \* self.parallel
    max_workers,        \* self.max_workers
    jitter_sleep,       \* argument jitter_sleep of run_all_sites
    batch_pc,           \* position inside run_all_sites
    environ_at_start,   \* os.environ as it was when run_all_sites was called
    jitter_delays,      \* how often time.sleep(<jitter>) ran: in run_all_sites, and per site task
    task_pc,            \* per submitted site: position of its _run_site call
    task_config,        \* per submitted site: the SiteConfig its _run_site loaded
    task_result,        \* per submitted site: the dict its _run_site call ended with
    results,            \* self.results, a dict in insertion order: <<[site, result], ...>>
    batch_summary,      \* the summary run_all_sites returned
    \* ---- deduplicate_topics ----
    dedup_pc,           \* "idle", "called" or "returned"
    generated_topics,   \* argument topics
    existing_titles,    \* argument existing_titles (None is the empty set)
    unique_topics,      \* the list returned
    \* ---- run_pipeline (automate) and its main ----
    run_pc,             \* position inside run_pipeline and main
    run_args,           \* arguments topic_count, publish, dry_run_wp, enable_jitter
    patched_config,     \* the stand-in a patched load_site_config returns, None when the
                        \* name is bound to multisite.load_site_config
    run_site_config,    \* local site_config
    actual_topic_count, \* local actual_topic_count (0: not set)
    pipeline_log,       \* pipeline_log.logs: the events logged, <<[stage, ok], ...>>
    job_run_id,         \* local job_run_id (0: None)
    api_calls,          \* the methods of client called, in call order
    shared_config,      \* the WordPress fields of the global config object
    processed,          \* the topics the publishing loop has gone through, in order
    drafts_created,     \* local drafts_created
    publish_errors,     \* local publish_errors
    create_post_log,    \* every call of wp_publisher.create_post and how it ended
    wp_requests,        \* the requests sent to the WordPress posts endpoint
    exit_code,          \* what main returned (None: it has not)
    \* ---- one HTTP call of the API client or of the WordPress publisher ----
    http_pc,            \* "idle", "called", "waiting", "returned" or "raised"
    http_client,        \* "api" (OrionAPIClient._make_request) or "wp" (create_post)
    http_method,        \* the HTTP method of the call
    http_responses,     \* the status codes received so far, one per request sent
    http_error,         \* the exception that left the call (None: none)
    \* ---- single calls of the API client and of the helpers ----
    bulk_pc,            \* "idle", "called", "requesting", "returned" or "raised"
    bulk_topics,        \* argument topics of bulk_create_topics
    bulk_result,        \* what bulk_create_topics returned, or the exception it raised
    http_payload,       \* the JSON body of the requests of the call (None: none)
    count_pc,           \* get_topic_count_range: "idle", "called" or "returned"
    count_text,         \* self.topic_count of that call
    count_range,        \* the pair get_topic_count_range returned
    gen_pc,             \* generate_topics_for_site: "idle", "called" or "returned"
    gen_site,           \* argument site
    gen_count,          \* argument count
    gen_topics          \* the list returned

pipelineVars == <<wp_publisher, pc, topic_id, publish, global_rulebook, override_rulebook,
                  outline_result, draft_result, final_content, stages_run, quality_result,
                  publish_decision, wordpress_result, run_result, create_post_calls,
                  wp_posts>>
rulebookVars == <<history>>
scoreVars == <<article, score_rulebook, score_result>>
siteVars == <<environ, site_list, site_config>>
batchVars == <<self_sites, parallel, max_workers, jitter_sleep, batch_pc, environ_at_start,
               jitter_delays, task_pc, task_config, task_result, results,
               batch_summary>>
dedupVars == <<dedup_pc, generated_topics, existing_titles, unique_topics>>
runVars == <<run_pc, run_args, patched_config, run_site_config, actual_topic_count,
             pipeline_log, job_run_id, api_calls, shared_config, processed,
             drafts_created, publish_errors, create_post_log, wp_requests, exit_code>>
httpVars == <<http_pc, http_client, http_method, http_responses, http_error>>
bulkVars == <<bulk_pc, bulk_topics, bulk_result, http_payload>>
countVars == <<count_pc, count_text, count_range>>
genVars == <<gen_pc, gen_site, gen_count, gen_topics>>
callVars == <<bulkVars, countVars, genVars>>
automationVars == <<batchVars, dedupVars, runVars, httpVars, callVars>>
vars == <<wp_publisher, pc, topic_id, publish, global_rulebook, override_rulebook,
          outline_result, draft_result, final_content, stages_run, quality_result,
          publish_decision, wordpress_result, run_result, create_post_calls,
          wp_posts, history, article, score_rulebook, score_result,
          environ, site_list, site_config, automationVars>>

\* ------------------------------------------------------------------ bounds
\* topics handed to one PipelineRunner, one run_complete_pipeline call each
MaxRuns == 2

\* ------------------------------------------------------------------ helpers
\* dict.get(key, default)
Get(d, k, default) == IF k \in DOMAIN d THEN d[k] ELSE default

Range(s) == {s[i] : i \in DOMAIN s}

Least(S) == CHOOSE x \in S : \A y \in S : x <= y

\* Python None for a local that holds a dict once it is set
None == [none |-> TRUE]

\* ------------------------------------------------------------------ inputs
\* quality scores the assessor can report for an article
Scores == {60, 78, 80, 85}

\* the 'enforcement' section of a rulebook: the threshold is always there,
\* block_publish_if_below and tag_if_below may be missing (run_pipeline.py:205)
Enforcements ==
    { [default_min_quality_score |-> t] : t \in {75, 80} }
    \cup { [default_min_quality_score |-> t, block_publish_if_below |-> b]
             : t \in {75, 80}, b \in BOOLEAN }
    \cup { [default_min_quality_score |-> t, tag_if_below |-> g]
             : t \in {75, 80}, g \in {"review-needed", "needs-review"} }
    \cup { [default_min_quality_score |-> t, block_publish_if_below |-> b, tag_if_below |-> g]
             : t \in {75, 80}, b \in BOOLEAN, g \in {"review-needed", "needs-review"} }

\* the rulebook's aio.content_layout: the sections an outline is built from
ContentLayout == <<"intro", "key_points", "faq">>

Rulebooks == { [enforcement |-> e, aio |-> [content_layout |-> ContentLayout]]
                 : e \in Enforcements }

\* ------------------------------------------------------------------ quality assessment
\* check_quality's enforcement check: the threshold is the rulebook's
\* default_min_quality_score and the article passes when its score reaches it
CheckQuality(score, rulebook) ==
    LET threshold == rulebook.enforcement.default_min_quality_score
    IN  [score |-> score,
         enforcement |-> [passed |-> score >= threshold, threshold |-> threshold]]

\* ------------------------------------------------------------------ the gate
MakePublishDecision_SwappedBranches(qr, rulebook) ==
    LET enforcement_rules == Get(rulebook, "enforcement", <<>>)
        block_below == Get(enforcement_rules, "block_publish_if_below", FALSE)
        tag_below == Get(enforcement_rules, "tag_if_below", "review-needed")
    IN  IF qr.enforcement.passed
          THEN [action |-> "publish", tags |-> <<>>, status |-> "approved",
                reason |-> <<"meets", qr.score, qr.enforcement.threshold>>]
          ELSE IF ~block_below
          THEN [action |-> "block", tags |-> <<tag_below>>, status |-> "blocked",
                reason |-> <<"below, blocking", qr.score, qr.enforcement.threshold>>]
          ELSE [action |-> "publish_with_review_tag", tags |-> <<tag_below>>,
                status |-> "needs_review",
                reason |-> <<"below, review tag", qr.score, qr.enforcement.threshold>>]

\* PipelineRunner._make_publish_decision
MakePublishDecision(qr, rulebook) ==
    LET score == qr.score
        enforcement == qr.enforcement
        passed == enforcement.passed
        threshold == enforcement.threshold
        enforcement_rules == Get(rulebook, "enforcement", <<>>)
        block_below == Get(enforcement_rules, "block_publish_if_below", FALSE)
        tag_below == Get(enforcement_rules, "tag_if_below", "review-needed")
    IN  IF passed
          THEN [action |-> "publish", tags |-> <<>>, status |-> "approved",
                reason |-> <<"meets", score, threshold>>]
          ELSE IF block_below
          THEN [action |-> "block", tags |-> <<tag_below>>, status |-> "blocked",
                reason |-> <<"below, blocking", score, threshold>>]
          ELSE [action |-> "publish_with_review_tag", tags |-> <<tag_below>>,
                status |-> "needs_review",
                reason |-> <<"below, review tag", score, threshold>>]

\* ------------------------------------------------------------------ publishing
\* WordPressPublisher.create_post(self, title, content, status='draft', categories=None):
\* the parameters a call must bind
CreatePostRequiredParams == <<"title", "content">>

\* Binding a call's positional arguments: Python raises TypeError, before the
\* body runs, when a required parameter is left without an argument
CreatePostBinds(args) == Len(args) >= Len(CreatePostRequiredParams)

\* The payload create_post builds from its bound arguments (title, content,
\* status): it has no tags field
CreatePostPayload(args) == [title |-> args[1], content |-> args[2], status |-> "draft"]

\* What _publish_to_wordpress does for a decision: its return value, the
\* create_post calls it makes (each with its positional arguments) and the
\* payloads create_post builds
PublishToWordpress_NoBlockCheck(topic, qr, decision) ==
    LET post_data == [title |-> topic, content |-> topic, status |-> "draft",
                      tags |-> Get(decision, "tags", <<>>)]
        args == <<post_data>>
    IN  IF ~CreatePostBinds(args)
          THEN [result |-> [success |-> FALSE, reason |-> "publishing_exception"],
                calls |-> <<args>>, posts |-> <<>>]
          ELSE [result |-> [success |-> FALSE, reason |-> "wordpress_api_error"],
                calls |-> <<args>>, posts |-> <<CreatePostPayload(args)>>]

\* PipelineRunner._publish_to_wordpress
PublishToWordpress(topic, qr, decision) ==
    IF decision.action = "block"
      THEN [result |-> [success |-> FALSE, reason |-> "blocked"],
            calls |-> <<>>, posts |-> <<>>]
      ELSE
        LET post_data == [title |-> topic, content |-> topic, status |-> "draft",
                          tags |-> Get(decision, "tags", <<>>)]
            \* self.wp_publisher.create_post(post_data): one positional argument
            args == <<post_data>>
        IN  IF ~CreatePostBinds(args)
              \* TypeError, caught by the except clause
              THEN [result |-> [success |-> FALSE, reason |-> "publishing_exception"],
                    calls |-> <<args>>, posts |-> <<>>]
              \* create_post returns WordPress's JSON (id, link, status), which has
              \* no 'success' key: result.get('success') is None
              ELSE [result |-> [success |-> FALSE, reason |-> "wordpress_api_error"],
                    calls |-> <<args>>, posts |-> <<CreatePostPayload(args)>>]

\* ------------------------------------------------------------------ generation stages
\* Costs are counted in millionths of a dollar: the price of one token of
\* each stage (0.000005, 0.000005 and 0.00001 dollars)
OutlineCostPerToken == 5
SectionsCostPerToken == 5
EeatCostPerToken == 10

\* the token estimate of each stage per character of its output
OutlineTokensPerChar == 2
SectionsTokensPerChar == 3
EeatTokensPerChar == 2

\* lengths of json.dumps(outline_structure), of total_content and of final_content
OutlineJsonLens == {400, 437}
SectionsContentLens == {1000, 1211}
EeatContentLens == {1500}

\* generate_outline's default_sections, as section ids
DefaultSections == <<"introduction", "key_points", "how_to", "faqs", "summary">>

\* the 'metrics' dict of a stage's metadata
StageMetrics(tokens, cost_per_token) ==
    [tokens |-> tokens, cost_usd |-> tokens * cost_per_token]

generate_outline_DropsLayout(ignore_rulebook, rulebook, override, json_len) ==
    LET rulebook_rules == IF ignore_rulebook \/ override
                            THEN <<>>
                            ELSE Get(Get(rulebook, "aio", <<>>), "content_layout", <<>>)
        outline_structure == IF rulebook_rules # <<>> THEN rulebook_rules ELSE DefaultSections
    IN  [result |-> [outline |-> outline_structure,
                     metadata |-> [metrics |-> StageMetrics(json_len * OutlineTokensPerChar,
                                                            OutlineCostPerToken)]],
         rulebook |-> [k \in DOMAIN rulebook \ {"aio"} |-> rulebook[k]]]

\* enrich.generate_outline(topic, strategy, rulebook, override_rulebook): its
\* return value and the rulebook dict as the call leaves it (the dict is
\* passed by reference; the function only reads it, and the override branch
\* rebinds the local rulebook_rules)
generate_outline(ignore_rulebook, rulebook, override, json_len) ==
    LET rulebook_rules == IF ignore_rulebook \/ override
                            THEN <<>>
                            ELSE Get(Get(rulebook, "aio", <<>>), "content_layout", <<>>)
        outline_structure == IF rulebook_rules # <<>> THEN rulebook_rules ELSE DefaultSections
    IN  [result |-> [outline |-> outline_structure,
                     metadata |-> [metrics |-> StageMetrics(json_len * OutlineTokensPerChar,
                                                            OutlineCostPerToken)]],
         rulebook |-> rulebook]

\* enrich.write_sections(outline, strategy, rulebook)
write_sections(outline, content_len) ==
    [sections |-> outline.outline,
     metadata |-> [metrics |-> StageMetrics(content_len * SectionsTokensPerChar,
                                            SectionsCostPerToken)]]

\* enrich.enrich_for_eeat(draft, strategy, rulebook): total_pipeline_cost adds
\* the draft's cost and this stage's cost
enrich_for_eeat(draft, final_len) ==
    LET metrics == StageMetrics(final_len * EeatTokensPerChar, EeatCostPerToken)
    IN  [status |-> "draft",
         metadata |-> [metrics |-> metrics,
                       total_pipeline_cost |-> draft.metadata.metrics.cost_usd
                                                 + metrics.cost_usd]]

\* round(total_cost, 4): the nearest multiple of 0.0001 dollars; halfway
\* between two multiples the result depends on the binary value of the float
\* sum, so both neighbours are possible
Round4(cost) ==
    LET low == (cost \div 100) * 100
        rest == cost % 100
    IN  IF rest < 50 THEN {low}
        ELSE IF rest > 50 THEN {low + 100}
        ELSE {low, low + 100}

create_job_metadata_ForgetsBlock(outline, draft, final, qr, decision, wp_result) ==
    LET total_cost == outline.metadata.metrics.cost_usd + draft.metadata.metrics.cost_usd
                        + final.metadata.metrics.cost_usd
        total_tokens == outline.metadata.metrics.tokens + draft.metadata.metrics.tokens
                          + final.metadata.metrics.tokens
    IN  { [stages_completed |-> 5,
           generation_metrics |->
               [total_cost_usd |-> c,
                total_tokens |-> total_tokens,
                outline_tokens |-> outline.metadata.metrics.tokens,
                sections_tokens |-> draft.metadata.metrics.tokens,
                eeat_tokens |-> final.metadata.metrics.tokens],
           quality_metrics |->
               [final_score |-> qr.score, enforcement_passed |-> qr.enforcement.passed],
           publishing |->
               [decision |-> IF decision.action = "block" THEN None ELSE decision,
                wordpress_success |-> IF wp_result # None
                                        THEN Get(wp_result, "success", FALSE)
                                        ELSE FALSE]]
          : c \in Round4(total_cost) }

\* PipelineRunner._create_job_metadata: the possible return values (one for
\* each outcome of the rounding)
create_job_metadata(outline, draft, final, qr, decision, wp_result) ==
    LET total_cost == outline.metadata.metrics.cost_usd + draft.metadata.metrics.cost_usd
                        + final.metadata.metrics.cost_usd
        total_tokens == outline.metadata.metrics.tokens + draft.metadata.metrics.tokens
                          + final.metadata.metrics.tokens
    IN  { [stages_completed |-> 5,
           generation_metrics |->
               [total_cost_usd |-> c,
                total_tokens |-> total_tokens,
                outline_tokens |-> outline.metadata.metrics.tokens,
                sections_tokens |-> draft.metadata.metrics.tokens,
                eeat_tokens |-> final.metadata.metrics.tokens],
           quality_metrics |->
               [final_score |-> qr.score, enforcement_passed |-> qr.enforcement.passed],
           publishing |->
               [decision |-> decision,
                wordpress_success |-> IF wp_result # None
                                        THEN Get(wp_result, "success", FALSE)
                                        ELSE FALSE]]
          : c \in Round4(total_cost) }

\* The order of the calls in the try block of run_complete_pipeline: the
\* position that follows each position
StageAfter_QualityBeforeEeat(stage) ==
    CASE stage = "outline" -> "sections"
      [] stage = "sections" -> "quality"
      [] stage = "quality" -> "eeat"
      [] stage = "eeat" -> "gate"
      [] stage = "gate" -> "publish"
      [] stage = "publish" -> "record"
      [] stage = "record" -> "done"

StageAfter(stage) ==
    CASE stage = "outline" -> "sections"
      [] stage = "sections" -> "eeat"
      [] stage = "eeat" -> "quality"
      [] stage = "quality" -> "gate"
      [] stage = "gate" -> "publish"
      [] stage = "publish" -> "record"
      [] stage = "record" -> "done"

\* ------------------------------------------------------------------ rulebook: bounds and inputs
\* version records the store holds at most
MaxVersions == 4

Max(a, b) == IF a >= b THEN a ELSE b
Min(a, b) == IF a <= b THEN a ELSE b
Last(s) == s[Len(s)]

\* rulebooks the store can start from (version 1)
InitialRulebooks ==
    { [seo |-> [title_length |-> [min |-> 40, max |-> 60], internal_links_min |-> 2],
       eeat |-> [require_author_bio |-> TRUE, require_citations |-> FALSE,
                 allowed_source_domains |-> {"*.gov"}],
       prohibited |-> [over_optimization_patterns |-> {"keyword stuffing"}]],
      [seo |-> [title_length |-> [min |-> 50, max |-> 60], internal_links_min |-> 4],
       eeat |-> [require_author_bio |-> TRUE]] }

\* PerplexityClient._get_stub_updates: the insights of the stub research, on
\* the fields the rulebook model carries
StubInsights ==
    [seo |-> [new_requirements |->
                 [title_length |-> [min |-> 50, max |-> 60], internal_links_min |-> 4]],
     eeat |-> [new_requirements |->
                 [require_author_bio |-> TRUE, require_social_proof |-> TRUE]]]

\* research insights an update can be derived from
ResearchInsights ==
    { StubInsights,
      \* stricter on every seo field
      [seo |-> [new_requirements |->
                  [title_length |-> [min |-> 45, max |-> 55], internal_links_min |-> 3]]],
      \* more permissive on every seo field
      [seo |-> [new_requirements |->
                  [title_length |-> [min |-> 40, max |-> 70], internal_links_min |-> 2]]],
      \* higher minimum, more permissive maximum
      [seo |-> [new_requirements |-> [title_length |-> [min |-> 45, max |-> 70]]]],
      \* a range above the current one
      [seo |-> [new_requirements |-> [title_length |-> [min |-> 65, max |-> 80]]]],
      \* a new requirement and an attempt to switch one off
      [eeat |-> [new_requirements |->
                  [require_social_proof |-> TRUE, require_author_bio |-> FALSE]]],
      \* more permissive booleans only
      [eeat |-> [new_requirements |-> [require_author_bio |-> FALSE]]],
      \* list fields
      [eeat |-> [new_requirements |->
                  [require_citations |-> TRUE, allowed_source_domains |-> {"*.edu"}]],
       prohibited |-> [new_requirements |->
                  [over_optimization_patterns |-> {"link spam"}]]],
      \* list fields the rulebook already has
      [eeat |-> [new_requirements |-> [allowed_source_domains |-> {"*.gov"}]]] }

\* ------------------------------------------------------------------ RulebookUpdater
\* how a field is merged: a numeric range {min, max}, a numeric minimum, a
\* boolean requirement or a set/list
FieldKind(f) ==
    CASE f \in {"title_length", "meta_description"} -> "range"
      [] f \in {"internal_links_min", "outbound_links_min"} -> "min"
      [] f \in {"require_author_bio", "require_citations", "require_social_proof"} -> "bool"
      [] f \in {"allowed_source_domains", "over_optimization_patterns"} -> "set"

MergeField_RangeOverwrites(f, cur, prop) ==
    CASE FieldKind(f) = "range" -> prop
      [] FieldKind(f) = "min" -> Max(cur, prop)
      [] FieldKind(f) = "bool" -> cur \/ prop
      [] FieldKind(f) = "set" -> cur \cup prop

MergeField_BoolOverwrites(f, cur, prop) ==
    CASE FieldKind(f) = "range" ->
             [min |-> Max(cur.min, prop.min), max |-> Min(cur.max, prop.max)]
      [] FieldKind(f) = "min" -> Max(cur, prop)
      [] FieldKind(f) = "bool" -> prop
      [] FieldKind(f) = "set" -> cur \cup prop

MergeField_SetReplaces(f, cur, prop) ==
    CASE FieldKind(f) = "range" ->
             [min |-> Max(cur.min, prop.min), max |-> Min(cur.max, prop.max)]
      [] FieldKind(f) = "min" -> Max(cur, prop)
      [] FieldKind(f) = "bool" -> cur \/ prop
      [] FieldKind(f) = "set" -> prop

MergeField_MinAccumulates(f, cur, prop) ==
    CASE FieldKind(f) = "range" ->
             [min |-> Max(cur.min, prop.min), max |-> Min(cur.max, prop.max)]
      [] FieldKind(f) = "min" -> cur + prop
      [] FieldKind(f) = "bool" -> cur \/ prop
      [] FieldKind(f) = "set" -> cur \cup prop

MergeField_RangeWidens(f, cur, prop) ==
    CASE FieldKind(f) = "range" ->
             [min |-> Max(cur.min, prop.min), max |-> Max(cur.max, prop.max)]
      [] FieldKind(f) = "min" -> Max(cur, prop)
      [] FieldKind(f) = "bool" -> cur \/ prop
      [] FieldKind(f) = "set" -> cur \cup prop

\* the conservative merge of one field that the current rules and the
\* proposal both have
MergeField(f, cur, prop) ==
    CASE FieldKind(f) = "range" ->
             [min |-> Max(cur.min, prop.min), max |-> Min(cur.max, prop.max)]
      [] FieldKind(f) = "min" -> Max(cur, prop)
      [] FieldKind(f) = "bool" -> cur \/ prop
      [] FieldKind(f) = "set" -> cur \cup prop

\* the conservative merge of one section: fields only the proposal has are
\* added as new requirements, fields only the current rules have are kept
ConservativeMerge(section, new_requirements) ==
    [f \in (DOMAIN section) \cup (DOMAIN new_requirements) |->
        IF f \in DOMAIN section /\ f \in DOMAIN new_requirements
          THEN MergeField(f, section[f], new_requirements[f])
          ELSE IF f \in DOMAIN section THEN section[f] ELSE new_requirements[f]]

UpdateSectionRules(current, insights, s) ==
    IF s \notin DOMAIN insights
      THEN current
      ELSE LET merged == ConservativeMerge(Get(current, s, <<>>),
                                           insights[s].new_requirements)
           IN  [k \in (DOMAIN current) \cup {s} |-> IF k = s THEN merged ELSE current[k]]

\* RulebookUpdater._update_seo_rules
UpdateSeoRules(current, insights) == UpdateSectionRules(current, insights, "seo")

\* RulebookUpdater._update_eeat_rules
UpdateEeatRules(current, insights) == UpdateSectionRules(current, insights, "eeat")

UpdateProhibitedRules(current, insights) == UpdateSectionRules(current, insights, "prohibited")

\* the rules an update gives: every section merged conservatively
MergeRules(current, insights) ==
    UpdateProhibitedRules(UpdateEeatRules(UpdateSeoRules(current, insights), insights),
                          insights)

\* RulebookUpdater._generate_version_notes: the fields whose value changed
GenerateVersionNotes(old, new) ==
    { <<s, f>> \in UNION { {s2} \X DOMAIN new[s2] : s2 \in DOMAIN new } :
        \/ s \notin DOMAIN old
        \/ f \notin DOMAIN old[s]
        \/ old[s][f] # new[s][f] }

\* RulebookUpdater.update_rulebook: the version payload for the research insights
UpdateRulebook(current_rulebook, insights) ==
    LET rules == MergeRules(current_rulebook, insights)
    IN  [rules |-> rules,
         sources |-> insights,
         version_notes |-> GenerateVersionNotes(current_rulebook, rules),
         research_metadata |-> [conservative_mode |-> TRUE, update_method |-> "research"]]

\* the record of version v in versions_data
FindVersion(versions_data, v) ==
    CHOOSE i \in DOMAIN versions_data : versions_data[i].version = v

CreateRollbackVersion_KeepsCurrent(from_version, to_version, versions_data) ==
    [rules |-> versions_data[FindVersion(versions_data, from_version)].rules,
     sources |-> <<>>,
     version_notes |-> {},
     research_metadata |-> [conservative_mode |-> TRUE, update_method |-> "rollback",
                            rollback_from |-> from_version, rollback_to |-> to_version]]

\* RulebookUpdater.create_rollback_version
CreateRollbackVersion(from_version, to_version, versions_data) ==
    [rules |-> versions_data[FindVersion(versions_data, to_version)].rules,
     sources |-> <<>>,
     version_notes |-> {},
     research_metadata |-> [conservative_mode |-> TRUE, update_method |-> "rollback",
                            rollback_from |-> from_version, rollback_to |-> to_version]]

\* ------------------------------------------------------------------ RulebookStore
CurrentVersion(hist) == Last(hist).version
CurrentRules(hist) == Last(hist).rules

SaveVersion_ReplacesCurrent(hist, payload) ==
    [hist EXCEPT ![Len(hist)] =
        [version |-> CurrentVersion(hist) + 1,
         rules |-> payload.rules,
         sources |-> payload.sources,
         notes |-> payload.version_notes,
         research_metadata |-> payload.research_metadata]]

\* a payload becomes the record of version current + 1 at the end of the history
SaveVersion(hist, payload) ==
    Append(hist,
        [version |-> CurrentVersion(hist) + 1,
         rules |-> payload.rules,
         sources |-> payload.sources,
         notes |-> payload.version_notes,
         research_metadata |-> payload.research_metadata])

\* ------------------------------------------------------------------ quality score
\* Weights are counted in thousandths: the default score_weights 0.35, 0.30,
\* 0.20 and 0.15
WeightUnit == 1000
DefaultWeights ==
    [eeat |-> 350, seo |-> 300, aio |-> 200, ai_search_visibility |-> 150]

\* the score_weights mappings a rulebook can carry
ScoreWeights ==
    { DefaultWeights,
      [eeat |-> 250, seo |-> 250, aio |-> 250, ai_search_visibility |-> 250],
      [eeat |-> 400, seo |-> 300, aio |-> 200, ai_search_visibility |-> 100],
      [eeat |-> 350, seo |-> 300, aio |-> 200, ai_search_visibility |-> 151],
      [eeat |-> 349, seo |-> 300, aio |-> 200, ai_search_visibility |-> 150],
      [eeat |-> 500, seo |-> 500] }

\* the rulebooks check_quality scores against: the eeat flags, with or
\* without a content layout, with or without score_weights
ScoreRulebooks ==
    LET Eeat == { [require_citations |-> c, require_author_bio |-> b] : c, b \in BOOLEAN }
    IN  { [eeat |-> e] : e \in Eeat }
        \cup { [eeat |-> e, aio |-> [content_layout |-> ContentLayout]] : e \in Eeat }
        \cup { [eeat |-> e, score_weights |-> w] : e \in Eeat, w \in ScoreWeights }
        \cup { [eeat |-> e, aio |-> [content_layout |-> ContentLayout], score_weights |-> w]
                 : e \in Eeat, w \in ScoreWeights }

\* what check_quality's analyzers find in an article: extracted claims, the
\* keyword placement, the meta description check, the layout sections named
\* in the text, the reading ease and the number of headings
Articles ==
    [facts : {0, 2},
     keyword_in_title : BOOLEAN,
     keyword_in_first_para : BOOLEAN,
     meta_within_range : BOOLEAN,
     sections_in_text : { {}, {"intro"}, {"intro", "faq"}, {"intro", "key_points", "faq"} },
     readability_score : {55, 65},
     headings : {2, 3}]

\* int(x) for the quotient n / d: truncation toward zero
IntOfQuotient(n, d) == IF n >= 0 THEN n \div d ELSE -((-n) \div d)

\* round(x) for the quotient n / d with n >= 0: the nearest integer, the even
\* one when x is halfway
RoundOfQuotient(n, d) ==
    LET q == n \div d
        r == n % d
    IN  IF 2 * r < d THEN q
        ELSE IF 2 * r > d THEN q + 1
        ELSE IF q % 2 = 0 THEN q ELSE q + 1

\* check_quality step 5: the four sub-scores
EeatScore(analysis, rulebook) ==
    LET eeat == Get(rulebook, "eeat", <<>>)
    IN  80 - (IF Get(eeat, "require_citations", FALSE) /\ analysis.facts = 0 THEN 20 ELSE 0)
           - (IF ~Get(eeat, "require_author_bio", FALSE) THEN 10 ELSE 0)

SeoScore(analysis) ==
    50 + (IF analysis.keyword_in_title THEN 20 ELSE 0)
       + (IF analysis.keyword_in_first_para THEN 15 ELSE 0)
       + (IF analysis.meta_within_range THEN 15 ELSE 0)

AioScore(analysis, rulebook) ==
    LET required_sections == Get(Get(rulebook, "aio", <<>>), "content_layout", <<>>)
        found_sections ==
            Cardinality({i \in DOMAIN required_sections
                           : required_sections[i] \in analysis.sections_in_text})
    IN  IF required_sections # <<>>
          THEN IntOfQuotient(found_sections * 100, Len(required_sections))
          ELSE 75

AiSearchScore(analysis) ==
    70 + (IF analysis.readability_score > 60 THEN 15 ELSE 0)
       + (IF analysis.headings >= 3 THEN 15 ELSE 0)

SubScores(analysis, rulebook) ==
    [eeat |-> EeatScore(analysis, rulebook),
     seo |-> SeoScore(analysis),
     aio |-> AioScore(analysis, rulebook),
     ai_search_visibility |-> AiSearchScore(analysis)]

\* check_quality step 6, before the conversion to an integer: the weighted
\* sum, in thousandths; a category missing from score_weights gets its default
WeightedSum(scores, rulebook) ==
    LET score_weights == Get(rulebook, "score_weights", DefaultWeights)
    IN  scores.eeat * Get(score_weights, "eeat", DefaultWeights.eeat)
          + scores.seo * Get(score_weights, "seo", DefaultWeights.seo)
          + scores.aio * Get(score_weights, "aio", DefaultWeights.aio)
          + scores.ai_search_visibility
              * Get(score_weights, "ai_search_visibility", DefaultWeights.ai_search_visibility)

FinalScore_Rounds(scores, rulebook) ==
    RoundOfQuotient(WeightedSum(scores, rulebook), WeightUnit)

\* final_score = int(weighted sum)
FinalScore(scores, rulebook) ==
    IntOfQuotient(WeightedSum(scores, rulebook), WeightUnit)

\* ------------------------------------------------------------------ multi-site configuration
\* Site keys, the value of ORION_SITES and the site part of a variable name
\* are sequences of characters; a variable name is the sequence of its base
\* name, and for a site-specific variable the separator "__" and the
\* characters of the site part; every other value is a sequence of one token.
\* The empty sequence is a value os.getenv treats as missing (None or '').
NoValue == <<>>

\* longest ORION_SITES value
MaxSitesEnvLen == 3

SitesEnvAlphabet == {"a", ",", " "}

SeqsUpTo(S, n) == UNION { [1..k -> S] : k \in 0..n }

VarName(base) == <<base>>
SiteVarName(base, env_site_key) == <<base, "__">> \o env_site_key

\* the base names of site_var_pattern
SiteVarBases == {"WP_URL", "WP_BASE_URL", "WP_USERNAME", "WP_APP_PASSWORD",
                 "TOPIC_COUNT", "ENRICH_PROMPT_STRATEGY"}

\* default_site = 'my-site'
DefaultSite == <<"m", "y", "-", "s", "i", "t", "e">>

\* the code point of a character, which orders Python strings
CodePoint(c) ==
    CASE c = " " -> 32  [] c = "," -> 44  [] c = "-" -> 45  [] c = "_" -> 95
      [] c = "a" -> 97  [] c = "b" -> 98  [] c = "e" -> 101 [] c = "i" -> 105
      [] c = "m" -> 109 [] c = "s" -> 115 [] c = "t" -> 116 [] c = "y" -> 121

\* str.replace(old, new) for single characters
Replace(s, old, new) == [i \in DOMAIN s |-> IF s[i] = old THEN new ELSE s[i]]

\* str.strip()
RECURSIVE StripLeft(_)
StripLeft(s) == IF s # <<>> /\ s[1] = " " THEN StripLeft(Tail(s)) ELSE s
RECURSIVE StripRight(_)
StripRight(s) ==
    IF s # <<>> /\ s[Len(s)] = " " THEN StripRight(SubSeq(s, 1, Len(s) - 1)) ELSE s
Strip(s) == StripRight(StripLeft(s))

\* str.split(sep)
RECURSIVE Split(_, _)
Split(s, sep) ==
    LET hits == {i \in DOMAIN s : s[i] = sep}
    IN  IF hits = {} THEN <<s>>
        ELSE LET i == CHOOSE h \in hits : \A g \in hits : h <= g
             IN  <<SubSeq(s, 1, i - 1)>> \o Split(SubSeq(s, i + 1, Len(s)), sep)

\* s < t for Python strings
RECURSIVE LexLess(_, _)
LexLess(s, t) ==
    IF s = <<>> THEN t # <<>>
    ELSE IF t = <<>> THEN FALSE
    ELSE IF s[1] = t[1] THEN LexLess(Tail(s), Tail(t))
    ELSE CodePoint(s[1]) < CodePoint(t[1])

\* sorted(list(sites))
RECURSIVE Sorted(_)
Sorted(S) ==
    IF S = {} THEN <<>>
    ELSE LET m == CHOOSE x \in S : \A y \in S \ {x} : LexLess(x, y)
         IN  <<m>> \o Sorted(S \ {m})

\* [site.strip() for site in sites_env.split(',') if site.strip()]
ExplicitSites(sites_env) ==
    LET parts == Split(sites_env, ",")
        stripped == [i \in DOMAIN parts |-> Strip(parts[i])]
        NonEmpty(site) == site # <<>>
    IN  SelectSeq(stripped, NonEmpty)

\* _detect_sites_from_env: the site part of every variable name that matches
\* site_var_pattern, underscores turned into hyphens
detect_sites_from_env(env) ==
    { Replace(SubSeq(name, 3, Len(name)), "_", "-")
        : name \in {n \in DOMAIN env : Len(n) >= 3 /\ n[1] \in SiteVarBases /\ n[2] = "__"} }

get_site_list_ExplicitFirst(env) ==
    LET sites_env == Get(env, VarName("ORION_SITES"), NoValue)
        explicit_sites == IF sites_env # NoValue THEN Range(ExplicitSites(sites_env)) ELSE {}
        detected_sites == detect_sites_from_env(env)
    IN  Sorted(IF explicit_sites # {} THEN explicit_sites
               ELSE IF detected_sites # {} THEN detected_sites
               ELSE {DefaultSite})

\* get_site_list
get_site_list(env) ==
    LET sites_env == Get(env, VarName("ORION_SITES"), NoValue)
        explicit_sites == IF sites_env # NoValue THEN Range(ExplicitSites(sites_env)) ELSE {}
        detected_sites == detect_sites_from_env(env)
        sites == explicit_sites \cup detected_sites
    IN  Sorted(IF sites = {} THEN {DefaultSite} ELSE sites)

\* _get_site_specific_env(*var_names): the first value that is not missing
get_site_specific_env(env, var_names) ==
    LET hits == {i \in DOMAIN var_names : Get(env, var_names[i], NoValue) # NoValue}
    IN  IF hits = {} THEN NoValue
        ELSE env[var_names[CHOOSE h \in hits : \A g \in hits : h <= g]]

\* load_wp_config_from_api: a placeholder that asks no endpoint and returns None
load_wp_config_from_api(site_key) == None

\* SiteConfig.has_wordpress_config
HasWordpressConfig(cfg) ==
    /\ cfg.wp_base_url # NoValue
    /\ cfg.wp_username # NoValue
    /\ cfg.wp_app_password # NoValue

load_site_config_FieldByField(env, site_key) ==
    LET env_site_key == Replace(site_key, "-", "_")
        site_wp_url == get_site_specific_env(env,
                           <<SiteVarName("WP_BASE_URL", env_site_key),
                             SiteVarName("WP_URL", env_site_key),
                             VarName("WP_BASE_URL"), VarName("WP_URL")>>)
        site_wp_user == get_site_specific_env(env,
                           <<SiteVarName("WP_USERNAME", env_site_key), VarName("WP_USERNAME")>>)
        site_wp_pass == get_site_specific_env(env,
                           <<SiteVarName("WP_APP_PASSWORD", env_site_key),
                             VarName("WP_APP_PASSWORD")>>)
        site_topic_count == get_site_specific_env(env,
                               <<SiteVarName("TOPIC_COUNT", env_site_key)>>)
    IN  [site_key |-> site_key,
         wp_base_url |-> site_wp_url,
         wp_username |-> site_wp_user,
         wp_app_password |-> site_wp_pass,
         topic_count |-> IF site_topic_count # NoValue THEN site_topic_count
                         ELSE Get(env, VarName("TOPIC_COUNT"), <<"5">>),
         source |-> "site-specific"]

\* load_site_config: the SiteConfig it returns; 'source' is the tier its
\* log line names
load_site_config(env, site_key) ==
    LET env_site_key == Replace(site_key, "-", "_")
        site_wp_url == get_site_specific_env(env,
                           <<SiteVarName("WP_BASE_URL", env_site_key),
                             SiteVarName("WP_URL", env_site_key)>>)
        site_wp_user == get_site_specific_env(env,
                           <<SiteVarName("WP_USERNAME", env_site_key)>>)
        site_wp_pass == get_site_specific_env(env,
                           <<SiteVarName("WP_APP_PASSWORD", env_site_key)>>)
        site_topic_count == get_site_specific_env(env,
                               <<SiteVarName("TOPIC_COUNT", env_site_key)>>)
        default_wp_url == get_site_specific_env(env,
                              <<VarName("WP_BASE_URL"), VarName("WP_URL")>>)
        default_wp_user == get_site_specific_env(env, <<VarName("WP_USERNAME")>>)
        default_wp_pass == get_site_specific_env(env, <<VarName("WP_APP_PASSWORD")>>)
        wp_config == load_wp_config_from_api(site_key)
        credentials ==
            IF site_wp_url # NoValue /\ site_wp_user # NoValue /\ site_wp_pass # NoValue
              THEN [url |-> site_wp_url, user |-> site_wp_user, pass |-> site_wp_pass,
                    source |-> "site-specific"]
            ELSE IF default_wp_url # NoValue /\ default_wp_user # NoValue
                      /\ default_wp_pass # NoValue
              THEN [url |-> default_wp_url, user |-> default_wp_user,
                    pass |-> default_wp_pass, source |-> "default"]
            ELSE IF wp_config # None
              THEN [url |-> Get(wp_config, "baseUrl", NoValue),
                    user |-> Get(wp_config, "username", NoValue),
                    pass |-> Get(wp_config, "appPassword", NoValue), source |-> "api"]
            ELSE [url |-> NoValue, user |-> NoValue, pass |-> NoValue, source |-> "none"]
    IN  [site_key |-> site_key,
         wp_base_url |-> credentials.url,
         wp_username |-> credentials.user,
         wp_app_password |-> credentials.pass,
         topic_count |-> IF site_topic_count # NoValue THEN site_topic_count
                         ELSE Get(env, VarName("TOPIC_COUNT"), <<"5">>),
         source |-> credentials.source]

\* the environments of a run: each variable is unset or has one of its values
Unset == [n \in {} |-> NoValue]
Opt(name, values) == {Unset} \cup { name :> v : v \in values }

Environs ==
    { o @@ a @@ b @@ c @@ d @@ e @@ f @@ g @@ h
        : o \in Opt(VarName("ORION_SITES"),
                     SeqsUpTo(SitesEnvAlphabet, MaxSitesEnvLen) \cup {<<"b", "_", "a">>}),
          a \in Opt(SiteVarName("WP_BASE_URL", <<"a">>), {<<"site_base_url">>}),
          b \in Opt(SiteVarName("WP_URL", <<"a">>), {<<"site_url">>}),
          c \in Opt(SiteVarName("WP_USERNAME", <<"a">>), {NoValue, <<"site_user">>}),
          d \in Opt(SiteVarName("WP_APP_PASSWORD", <<"a">>), {<<"site_pass">>}),
          e \in Opt(VarName("WP_BASE_URL"), {<<"default_url">>}),
          f \in Opt(VarName("WP_USERNAME"), {<<"default_user">>}),
          g \in Opt(VarName("WP_APP_PASSWORD"), {<<"default_pass">>}),
          h \in Opt(SiteVarName("TOPIC_COUNT", <<"b", "_", "a">>), {<<"7">>}) }

\* ------------------------------------------------------------------ multi-site batch
\* most sites in one batch
MaxBatchSites == 3

\* the site keys a batch names; a key may be named twice (--sites a,a)
BatchSiteKeys == {<<"a">>, <<"b">>}
BatchSiteLists == SeqsUpTo(BatchSiteKeys, MaxBatchSites) \ {<<>>}

\* parallel and max_workers of a MultiSitePipelineRunner
BatchModes == {[parallel |-> FALSE, max_workers |-> 1],
               [parallel |-> TRUE, max_workers |-> 1],
               [parallel |-> TRUE, max_workers |-> 2]}

\* the environments of a batch: site a has its own credentials and its own
\* topic count, or not; nothing else is set
BatchEnvirons ==
    { c @@ t
        : c \in {Unset,
                 SiteVarName("WP_BASE_URL", <<"a">>) :> <<"site_base_url">>
                   @@ SiteVarName("WP_USERNAME", <<"a">>) :> <<"site_user">>
                   @@ SiteVarName("WP_APP_PASSWORD", <<"a">>) :> <<"site_pass">>},
          t \in Opt(SiteVarName("TOPIC_COUNT", <<"a">>), {<<"3">>}) }

\* SiteConfig.to_env_dict; the prompt strategy is 'default' where no
\* ENRICH_PROMPT_STRATEGY variable is set
to_env_dict(cfg) ==
    (IF cfg.wp_base_url # NoValue
       THEN VarName("WP_BASE_URL") :> cfg.wp_base_url ELSE Unset)
    @@ (IF cfg.wp_username # NoValue
          THEN VarName("WP_USERNAME") :> cfg.wp_username ELSE Unset)
    @@ (IF cfg.wp_app_password # NoValue
          THEN VarName("WP_APP_PASSWORD") :> cfg.wp_app_password ELSE Unset)
    @@ VarName("TOPIC_COUNT") :> cfg.topic_count
    @@ VarName("ENRICH_PROMPT_STRATEGY") :> <<"default">>

\* apply_site_config_to_env: os.environ after the loop of assignments
apply_site_config_to_env(env, cfg) == to_env_dict(cfg) @@ env

\* what PipelineLogger.get_summary can report when run_pipeline returns
RunSummaries ==
    {[total_stages |-> 2, failed_stages |-> 1, duration_minutes |-> 1],
     [total_stages |-> 8, failed_stages |-> 0, duration_minutes |-> 2]}

\* how a _run_site call can end: run_pipeline returns a summary, or an
\* exception leaves _run_site
Raised == [raised |-> TRUE]
SiteOutcomes == RunSummaries \cup {Raised}

\* the dict stored for a site whose run returned
SiteSummary(site_key, summary) ==
    [site |-> site_key,
     total_stages |-> summary.total_stages,
     failed_stages |-> summary.failed_stages,
     duration_minutes |-> summary.duration_minutes,
     log_file |-> <<"automation-logs", site_key>>]

\* the dict stored for a site whose run raised
SiteFailure(site_key) ==
    [site |-> site_key, total_stages |-> 0, failed_stages |-> 1,
     duration_minutes |-> 0, error |-> "error"]

\* self.results[site_key] = result on a dict that keeps insertion order
DictSet(d, k, v) ==
    IF \E i \in DOMAIN d : d[i].site = k
      THEN [i \in DOMAIN d |-> IF d[i].site = k THEN [site |-> k, result |-> v] ELSE d[i]]
      ELSE Append(d, [site |-> k, result |-> v])

RECURSIVE SumResults(_, _)
SumResults(d, field) ==
    IF d = <<>> THEN 0
    ELSE Get(d[1].result, field, 0) + SumResults(Tail(d), field)

RECURSIVE SiteLogs(_)
SiteLogs(d) ==
    IF d = <<>> THEN <<>>
    ELSE (IF "log_file" \in DOMAIN d[1].result THEN <<d[1].result.log_file>> ELSE <<>>)
         \o SiteLogs(Tail(d))

\* _generate_summary without its wall-clock field and the global log path;
\* a quotient is the pair of its operands
generate_summary(d, is_parallel) ==
    LET total_sites == Len(d)
        successful_sites ==
            Cardinality({i \in DOMAIN d : Get(d[i].result, "failed_stages", 1) = 0})
        failed_sites == total_sites - successful_sites
    IN  [multisite_execution |->
            [total_sites |-> total_sites,
             successful_sites |-> successful_sites,
             failed_sites |-> failed_sites,
             success_rate |-> <<total_sites - failed_sites, total_sites>>,
             parallel_execution |-> is_parallel],
         aggregate_stats |->
            [total_pipeline_stages |-> SumResults(d, "total_stages"),
             total_failed_stages |-> SumResults(d, "failed_stages"),
             average_site_duration_minutes |->
                 <<SumResults(d, "duration_minutes"), total_sites>>],
         site_results |-> d,
         log_files |-> [site_logs |-> SiteLogs(d)]]

\* how many _run_site calls may be in progress: the pool of _run_parallel,
\* one call at a time in _run_sequential
WorkerLimit_Unbounded(is_parallel, n_sites, workers) == n_sites

WorkerLimit(is_parallel, n_sites, workers) ==
    IF is_parallel /\ n_sites > 1 THEN workers ELSE 1

\* the batch after a _run_site call ended: both loops catch the exception
\* of a site and go on
BatchAfter_RaiseAborts(outcome) == IF outcome = Raised THEN "aborted" ELSE "running"

BatchAfter(outcome) == "running"

\* the dict both loops store for a site
SiteResult(site_key, outcome) ==
    IF outcome = Raised THEN SiteFailure(site_key)
    ELSE SiteSummary(site_key, outcome)

\* ------------------------------------------------------------------ topic deduplication
\* most topics in one call of deduplicate_topics
MaxTopics == 3

TopicTitles == {"A", "B"}

\* marks a topic dict that has no key 'title'
MissingTitle == "(missing)"

\* a topic dict: its position in the generated list stands for the fields
\* that tell two topics of the same title apart
TopicWith(i, title) ==
    IF title = MissingTitle THEN [id |-> i] ELSE [id |-> i, title |-> title]

TopicListsOver(titles) ==
    UNION { {[i \in 1..n |-> TopicWith(i, f[i])] : f \in [1..n -> titles]}
            : n \in 0..MaxTopics }

\* the lists handed to deduplicate_topics: 'title' may be empty or missing
TopicLists == TopicListsOver(TopicTitles \cup {"", MissingTitle})

RECURSIVE DedupLoop_KeepsLast(_, _)
DedupLoop_KeepsLast(topics, seen_titles) ==
    IF topics = <<>> THEN <<>>
    ELSE LET topic == topics[1]
             title == Get(topic, "title", "")
             later == {Get(Tail(topics)[j], "title", "") : j \in DOMAIN Tail(topics)}
         IN  IF title # "" /\ title \notin seen_titles /\ title \notin later
               THEN <<topic>> \o DedupLoop_KeepsLast(Tail(topics), seen_titles)
               ELSE DedupLoop_KeepsLast(Tail(topics), seen_titles)

\* the loop of deduplicate_topics over the topics left, seen_titles at hand
RECURSIVE DedupLoop(_, _)
DedupLoop(topics, seen_titles) ==
    IF topics = <<>> THEN <<>>
    ELSE LET topic == topics[1]
             title == Get(topic, "title", "")
         IN  IF title # "" /\ title \notin seen_titles
               THEN <<topic>> \o DedupLoop(Tail(topics), seen_titles \cup {title})
               ELSE DedupLoop(Tail(topics), seen_titles)

\* deduplicate_topics(topics, existing_titles): seen_titles starts as a copy
\* of existing_titles
deduplicate_topics(topics, existing) == DedupLoop(topics, existing)

\* ------------------------------------------------------------------ single-site run
\* the site of the run
RunSiteKey == <<"a">>

\* the environments of a run: no credentials, credentials of the site, the
\* global WP_BASE_URL, WP_USERNAME and WP_APP_PASSWORD, or both
RunEnvirons ==
    LET of_site == SiteVarName("WP_BASE_URL", RunSiteKey) :> <<"site_base_url">>
                     @@ SiteVarName("WP_USERNAME", RunSiteKey) :> <<"site_user">>
                     @@ SiteVarName("WP_APP_PASSWORD", RunSiteKey) :> <<"site_pass">>
        global == VarName("WP_BASE_URL") :> <<"default_url">>
                    @@ VarName("WP_USERNAME") :> <<"default_user">>
                    @@ VarName("WP_APP_PASSWORD") :> <<"default_pass">>
    IN  {Unset, of_site, global, of_site @@ global}

\* Config.__init__: the WordPress fields of the global config object
Config(env) ==
    [wp_base_url |-> Get(env, VarName("WP_BASE_URL"), NoValue),
     wp_username |-> Get(env, VarName("WP_USERNAME"), NoValue),
     wp_app_password |-> Get(env, VarName("WP_APP_PASSWORD"), NoValue)]

\* the arguments of run_pipeline; topic_count 5 is the default
RunArgs ==
    [topic_count : {5, 3}, publish : BOOLEAN, dry_run_wp : {"None", "True"},
     enable_jitter : BOOLEAN]

\* a site_config object that has the attribute topic_count_range, which
\* run_pipeline reads and SiteConfig does not define
StandInConfigs ==
    {[has_wordpress_config |-> TRUE, topic_count |-> 2, topic_count_range |-> <<2, 2>>,
      enrich_prompt_strategy |-> "default"],
     [has_wordpress_config |-> FALSE, topic_count |-> 2, topic_count_range |-> <<2, 3>>,
      enrich_prompt_strategy |-> "default"]}

\* the SiteConfig load_site_config returns for the site, given the attribute
\* topic_count_range as the stand-ins have it
ResolvedStandIn(env) ==
    [topic_count |-> 2, topic_count_range |-> <<2, 2>>, enrich_prompt_strategy |-> "default"]
        @@ load_site_config(env, RunSiteKey)

\* site_config.has_wordpress_config
SiteHasWordpressConfig(cfg) ==
    IF "has_wordpress_config" \in DOMAIN cfg THEN cfg.has_wordpress_config
    ELSE HasWordpressConfig(cfg)

\* the topics generate_topics_for_site can return: every topic has a title,
\* two topics may have the same
RunTopicLists == TopicListsOver(TopicTitles)

\* PipelineLogger.log_event
log_event(logs, stage, ok) == Append(logs, [stage |-> stage, ok |-> ok])

\* PipelineLogger.get_summary without its wall-clock field; the quotient is
\* the pair of its operands
get_summary(logs) ==
    LET total_stages == Len(logs)
        failed_stages == Cardinality({i \in DOMAIN logs : ~logs[i].ok})
    IN  [site |-> RunSiteKey,
         total_stages |-> total_stages,
         failed_stages |-> failed_stages,
         success_rate |-> <<total_stages - failed_stages, total_stages>>,
         log_file |-> <<"automation-logs", RunSiteKey>>]

\* how one HTTP exchange with the WordPress posts endpoint can end
WordpressResponses == {"created", "http_error"}

\* WordPressPublisher.create_post with the config object as it is at the
\* call: the dict returned, whether a request was sent, whether it raised
create_post_AlwaysPosts(config, title, status, response) ==
    IF response = "created"
      THEN [raised |-> FALSE, sent |-> TRUE,
            result |-> [id |-> "123", status |-> status]]
      ELSE [raised |-> TRUE, sent |-> TRUE, result |-> None]

create_post(config, title, status, response) ==
    IF ~HasWordpressConfig(config)
      THEN [raised |-> FALSE, sent |-> FALSE,
            result |-> [id |-> "dry-run", link |-> "https://example.com/dry-run-post",
                        status |-> status, title |-> [rendered |-> title]]]
    ELSE IF response = "created"
      THEN [raised |-> FALSE, sent |-> TRUE,
            result |-> [id |-> "123", status |-> status]]
    ELSE [raised |-> TRUE, sent |-> TRUE, result |-> None]

\* where run_pipeline goes after a topic of the publishing loop failed: the
\* except clause of the loop body counts the error and the loop goes on
AfterTopicError_Aborts == "failed"

AfterTopicError == "loop"

\* main: the exit code for a summary
ExitCode(summary) == IF summary.failed_stages > 0 THEN 1 ELSE 0

\* ------------------------------------------------------------------ HTTP calls
\* Retry(total=3, ...) of the session Config.get_session builds
RetryTotal == 3

\* status_forcelist of that Retry
StatusForcelist == {429, 500, 502, 503, 504}

\* the methods that Retry retries on a status of the forcelist: it is built
\* without a list of methods, which leaves the idempotent ones
RetryMethods == {"DELETE", "GET", "HEAD", "OPTIONS", "PUT", "TRACE"}

\* the status codes a server answers with
HttpStatuses == {200, 404, 429, 500, 501, 503}

\* the sessions: OrionAPIClient has the session of Config.get_session, whose
\* adapter retries; WordPressPublisher has a plain requests.Session()
HttpClients == {"api", "wp"}
HttpMethods == {"GET", "POST"}

\* whether the adapter of the client's session sends the request again
\* after this response, 'sent' requests having been sent
SessionRetries(client, method, status, sent) ==
    /\ client = "api"
    /\ method \in RetryMethods
    /\ status \in StatusForcelist
    /\ sent <= RetryTotal

\* the exception that leaves the call for a response that is not retried:
\* none for a success; for the API client a forcelist status after the last
\* retry arrives as a RequestException and becomes the OrionAPIError
\* 'Network error' without status code, any other error status becomes an
\* OrionAPIError with status_code and response_body; create_post re-raises
\* the HTTPError of the response
HttpErrorFor(client, method, status) ==
    IF status < 400 THEN None
    ELSE IF client = "api" /\ method \in RetryMethods /\ status \in StatusForcelist
      THEN [type |-> "OrionAPIError", message |-> "Network error"]
    ELSE IF client = "api"
      THEN [type |-> "OrionAPIError", status_code |-> status, response_body |-> "body"]
    ELSE [type |-> "HTTPError", status_code |-> status, response_body |-> "body"]

\* ------------------------------------------------------------------ bulk_create_topics
\* most topics in one call of bulk_create_topics
MaxBulkTopics == 2

\* required_fields, in the order the loop looks for them
RequiredFields == <<"siteId", "categoryId", "title">>

\* a topic dict with the given keys
TopicDict(keys) == [k \in keys |-> IF k = "title" THEN "A" ELSE "1"]

\* the batches handed to bulk_create_topics: every topic has some of the
\* required keys and may have the key 'angle' besides
BulkTopicLists ==
    SeqsUpTo({TopicDict(keys) : keys \in SUBSET (Range(RequiredFields) \cup {"angle"})},
             MaxBulkTopics)

\* the first required field the topic lacks, "" when it has them all
MissingField(topic) ==
    IF \A j \in DOMAIN RequiredFields : RequiredFields[j] \in DOMAIN topic THEN ""
    ELSE RequiredFields[Least({j \in DOMAIN RequiredFields :
                                   RequiredFields[j] \notin DOMAIN topic})]

\* the validation loop of bulk_create_topics: the index (from 0) and the
\* missing field of the first topic that fails, None when none does
ValidateTopics_FirstOnly(topics) ==
    IF topics = <<>> \/ MissingField(topics[1]) = "" THEN None
    ELSE [index |-> 0, field |-> MissingField(topics[1])]

ValidateTopics(topics) ==
    LET bad == {i \in DOMAIN topics : MissingField(topics[i]) # ""}
    IN  IF bad = {} THEN None
        ELSE [index |-> Least(bad) - 1, field |-> MissingField(topics[Least(bad)])]

\* ------------------------------------------------------------------ topic count
\* most characters of a topic_count string
MaxCountLen == 3

\* the characters of the topic_count strings
CountChars == {"1", "3", "-", " ", "x"}

TopicCountTexts == SeqsUpTo(CountChars, MaxCountLen)

DigitValue(c) == CASE c = "1" -> 1 [] c = "3" -> 3

IsDigits(s) == s # <<>> /\ \A i \in DOMAIN s : s[i] \in {"1", "3"}

RECURSIVE DigitsValue(_)
DigitsValue(s) ==
    IF s = <<>> THEN 0 ELSE 10 * DigitsValue(SubSeq(s, 1, Len(s) - 1)) + DigitValue(s[Len(s)])

\* whether int(s) returns: blanks around an optional sign and digits
IntParses(s) ==
    LET t == Strip(s)
    IN  IF t # <<>> /\ t[1] = "-" THEN IsDigits(Tail(t)) ELSE IsDigits(t)

\* int(s) where it returns
IntOf(s) ==
    LET t == Strip(s)
    IN  IF t[1] = "-" THEN 0 - DigitsValue(Tail(t)) ELSE DigitsValue(t)

\* the fallback of get_topic_count_range
DefaultTopicCount == 5

\* SiteConfig.get_topic_count_range for self.topic_count
get_topic_count_range(topic_count) ==
    IF "-" \in Range(topic_count)
      THEN LET i == Least({h \in DOMAIN topic_count : topic_count[h] = "-"})
               min_val == SubSeq(topic_count, 1, i - 1)
               max_val == SubSeq(topic_count, i + 1, Len(topic_count))
           IN  IF IntParses(Strip(min_val)) /\ IntParses(Strip(max_val))
                 THEN <<IntOf(Strip(min_val)), IntOf(Strip(max_val))>>
                 ELSE <<DefaultTopicCount, DefaultTopicCount>>
    ELSE IF IntParses(topic_count)
      THEN <<IntOf(topic_count), IntOf(topic_count)>>
    ELSE <<DefaultTopicCount, DefaultTopicCount>>

\* ------------------------------------------------------------------ topic generation
\* most categories of a site, and the largest count asked for
MaxCategories == 3
MaxGenCount == 4

\* the sites handed to generate_topics_for_site: the categories are known by
\* their ids
GenSites == {[id |-> "site1", categories |-> [i \in 1..n |-> i]] : n \in 0..MaxCategories}

\* category_count of the category at index i (from 0) of n categories
CategoryCount(count, n, i) ==
    Max(1, count \div n) + (IF i < count % n THEN 1 ELSE 0)

\* the categoryId of the topics in the order the two loops append them
RECURSIVE CategoryOfTopics(_, _, _)
CategoryOfTopics(categories, count, i) ==
    IF i >= Len(categories) THEN <<>>
    ELSE [j \in 1..CategoryCount(count, Len(categories), i) |-> categories[i + 1]]
         \o CategoryOfTopics(categories, count, i + 1)

\* ------------------------------------------------------------------ initial state
\* A PipelineRunner after __init__: wp_publisher is a WordPressPublisher when
\* WordPress is configured, None otherwise; no run has started
InitPipelineWith(configured) ==
    /\ wp_publisher = configured
    /\ pc = "idle"
    /\ topic_id = 0
    /\ publish = FALSE
    /\ global_rulebook = None
    /\ override_rulebook = FALSE
    /\ outline_result = None
    /\ draft_result = None
    /\ final_content = None
    /\ stages_run = <<>>
    /\ quality_result = None
    /\ publish_decision = None
    /\ wordpress_result = None
    /\ run_result = None
    /\ create_post_calls = <<>>
    /\ wp_posts = <<>>

\* a store that holds version 1 of the rulebook
InitRulebookWith(rules) ==
    history = <<[version |-> 1, rules |-> rules, sources |-> <<>>, notes |-> {},
                 research_metadata |-> [update_method |-> "initial"]]>>

\* no article is being scored
InitScoreIdle ==
    /\ article = None
    /\ score_rulebook = None
    /\ score_result = None

\* no site is being resolved
InitSiteIdle ==
    /\ environ = Unset
    /\ site_list = <<>>
    /\ site_config = None

\* no batch is running
InitBatchIdle ==
    /\ self_sites = <<>>
    /\ parallel = FALSE
    /\ max_workers = 0
    /\ jitter_sleep = FALSE
    /\ batch_pc = "idle"
    /\ environ_at_start = Unset
    /\ jitter_delays = [batch |-> 0, site |-> <<>>]
    /\ task_pc = <<>>
    /\ task_config = <<>>
    /\ task_result = <<>>
    /\ results = <<>>
    /\ batch_summary = None

\* deduplicate_topics is not being called
InitDedupIdle ==
    /\ dedup_pc = "idle"
    /\ generated_topics = <<>>
    /\ existing_titles = {}
    /\ unique_topics = <<>>

\* run_pipeline is not being called
InitRunIdle ==
    /\ run_pc = "idle"
    /\ run_args = None
    /\ patched_config = None
    /\ run_site_config = None
    /\ actual_topic_count = 0
    /\ pipeline_log = <<>>
    /\ job_run_id = 0
    /\ api_calls = <<>>
    /\ shared_config = None
    /\ processed = <<>>
    /\ drafts_created = 0
    /\ publish_errors = 0
    /\ create_post_log = <<>>
    /\ wp_requests = <<>>
    /\ exit_code = None

\* no HTTP call is in progress
InitHttpIdle ==
    /\ http_pc = "idle"
    /\ http_client = "api"
    /\ http_method = "GET"
    /\ http_responses = <<>>
    /\ http_error = None

\* no single call is in progress
InitBulkIdle ==
    /\ bulk_pc = "idle"
    /\ bulk_topics = <<>>
    /\ bulk_result = None
    /\ http_payload = None

InitCountIdle ==
    /\ count_pc = "idle"
    /\ count_text = <<>>
    /\ count_range = <<>>

InitGenIdle ==
    /\ gen_pc = "idle"
    /\ gen_site = None
    /\ gen_count = 0
    /\ gen_topics = <<>>

InitCallsIdle ==
    /\ InitBulkIdle
    /\ InitCountIdle
    /\ InitGenIdle

InitAutomationIdle ==
    /\ InitBatchIdle
    /\ InitDedupIdle
    /\ InitRunIdle
    /\ InitHttpIdle
    /\ InitCallsIdle

Init ==
    /\ \E configured \in BOOLEAN : InitPipelineWith(configured)
    /\ \E rules \in InitialRulebooks : InitRulebookWith(rules)
    /\ InitScoreIdle
    /\ InitSiteIdle
    /\ InitAutomationIdle

\* ------------------------------------------------------------------ run_complete_pipeline
\* The caller starts run_complete_pipeline(site_key, topic_id, publish); step 1
\* loads the topic, the site strategy and the global rulebook (each loader
\* catches its own errors and falls back to a default), step 2 reads the
\* topic's ignore_rulebook flag
StartRun ==
    /\ pc \in {"idle", "done"}
    /\ topic_id < MaxRuns
    /\ topic_id' = topic_id + 1
    /\ publish' \in BOOLEAN
    /\ global_rulebook' \in Rulebooks
    /\ override_rulebook' \in BOOLEAN
    /\ outline_result' = None
    /\ draft_result' = None
    /\ final_content' = None
    /\ stages_run' = <<>>
    /\ quality_result' = None
    /\ publish_decision' = None
    /\ wordpress_result' = None
    /\ run_result' = None
    /\ pc' = "outline"
    /\ UNCHANGED <<wp_publisher, create_post_calls, wp_posts, history, scoreVars, siteVars, automationVars>>

\* Stage 1: generate_outline
GenerateOutline ==
    /\ pc = "outline"
    /\ stages_run' = Append(stages_run, "outline")
    /\ \E json_len \in OutlineJsonLens :
           LET r == generate_outline(override_rulebook, global_rulebook,
                                     override_rulebook, json_len)
           IN  /\ outline_result' = r.result
               /\ global_rulebook' = r.rulebook
    /\ pc' = StageAfter(pc)
    /\ UNCHANGED <<wp_publisher, topic_id, publish, override_rulebook, draft_result,
                   final_content, quality_result, publish_decision, wordpress_result,
                   run_result, create_post_calls, wp_posts, history, scoreVars, siteVars, automationVars>>

\* Stage 2: write_sections
WriteSections ==
    /\ pc = "sections"
    /\ stages_run' = Append(stages_run, "sections")
    /\ \E content_len \in SectionsContentLens :
           draft_result' = write_sections(outline_result, content_len)
    /\ pc' = StageAfter(pc)
    /\ UNCHANGED <<wp_publisher, topic_id, publish, global_rulebook, override_rulebook,
                   outline_result, final_content, quality_result, publish_decision,
                   wordpress_result, run_result, create_post_calls, wp_posts, history, scoreVars, siteVars, automationVars>>

\* Stage 3: enrich_for_eeat
EnrichForEeat ==
    /\ pc = "eeat"
    /\ stages_run' = Append(stages_run, "eeat")
    /\ \E final_len \in EeatContentLens :
           final_content' = enrich_for_eeat(draft_result, final_len)
    /\ pc' = StageAfter(pc)
    /\ UNCHANGED <<wp_publisher, topic_id, publish, global_rulebook, override_rulebook,
                   outline_result, draft_result, quality_result, publish_decision,
                   wordpress_result, run_result, create_post_calls, wp_posts, history, scoreVars, siteVars, automationVars>>

\* Stage 4: check_quality
AssessQuality ==
    /\ pc = "quality"
    /\ stages_run' = Append(stages_run, "quality")
    /\ \E score \in Scores : quality_result' = CheckQuality(score, global_rulebook)
    /\ pc' = StageAfter(pc)
    /\ UNCHANGED <<wp_publisher, topic_id, publish, global_rulebook, override_rulebook,
                   outline_result, draft_result, final_content, publish_decision,
                   wordpress_result, run_result, create_post_calls, wp_posts, history, scoreVars, siteVars, automationVars>>

\* Stage 5: _make_publish_decision
Gate ==
    /\ pc = "gate"
    /\ stages_run' = Append(stages_run, "gate")
    /\ publish_decision' = MakePublishDecision(quality_result, global_rulebook)
    /\ pc' = StageAfter(pc)
    /\ UNCHANGED <<wp_publisher, topic_id, publish, global_rulebook, override_rulebook,
                   outline_result, draft_result, final_content, quality_result,
                   wordpress_result, run_result, create_post_calls, wp_posts, history, scoreVars, siteVars, automationVars>>

\* Step 8: if publish and self.wp_publisher: _publish_to_wordpress(...)
Publish ==
    /\ pc = "publish"
    /\ IF publish /\ wp_publisher
         THEN LET r == PublishToWordpress(topic_id, quality_result, publish_decision)
              IN  /\ wordpress_result' = r.result
                  /\ create_post_calls' = create_post_calls \o r.calls
                  /\ wp_posts' = wp_posts \o r.posts
                  /\ stages_run' = Append(stages_run, "publish")
         ELSE UNCHANGED <<wordpress_result, create_post_calls, wp_posts, stages_run>>
    /\ pc' = StageAfter(pc)
    /\ UNCHANGED <<wp_publisher, topic_id, publish, global_rulebook, override_rulebook,
                   outline_result, draft_result, final_content, quality_result,
                   publish_decision, run_result, history, scoreVars, siteVars, automationVars>>

\* Steps 9-10 and the return of the success dict
Finish ==
    /\ pc = "record"
    /\ \E job_metadata \in create_job_metadata(outline_result, draft_result, final_content,
                                               quality_result, publish_decision,
                                               wordpress_result) :
           run_result' =
               [success |-> TRUE,
                topic_id |-> topic_id,
                quality_score |-> quality_result.score,
                quality_passed |-> quality_result.enforcement.passed,
                published |-> (wordpress_result # None
                                 /\ Get(wordpress_result, "success", FALSE)),
                wordpress_result |-> wordpress_result,
                pipeline_metrics |-> job_metadata,
                final_content |-> final_content]
    /\ pc' = StageAfter(pc)
    /\ UNCHANGED <<wp_publisher, topic_id, publish, global_rulebook, override_rulebook,
                   outline_result, draft_result, final_content, stages_run, quality_result,
                   publish_decision, wordpress_result, create_post_calls, wp_posts,
                   history, scoreVars, siteVars, automationVars>>

\* A generation stage or the quality assessment raises: the call is made, the
\* except clause builds error_metadata and returns the failure dict
StageRaises ==
    /\ pc \in {"outline", "sections", "eeat", "quality"}
    /\ stages_run' = Append(stages_run, pc)
    /\ run_result' = [success |-> FALSE,
                      topic_id |-> topic_id,
                      pipeline_metrics |-> [failed_stage |-> "unknown"]]
    /\ pc' = "done"
    /\ UNCHANGED <<wp_publisher, topic_id, publish, global_rulebook, override_rulebook,
                   outline_result, draft_result, final_content, quality_result,
                   publish_decision, wordpress_result, create_post_calls, wp_posts,
                   history, scoreVars, siteVars, automationVars>>

NextPipeline ==
    \/ StartRun
    \/ GenerateOutline
    \/ WriteSections
    \/ EnrichForEeat
    \/ AssessQuality
    \/ Gate
    \/ Publish
    \/ Finish
    \/ StageRaises

SpecPipeline == Init /\ [][NextPipeline]_vars

\* ------------------------------------------------------------------ rulebook operations
\* A research update: update_rulebook on the current rules, saved as a new version
ApplyUpdate ==
    /\ Len(history) < MaxVersions
    /\ \E insights \in ResearchInsights :
           history' = SaveVersion(history, UpdateRulebook(CurrentRules(history), insights))
    /\ UNCHANGED <<pipelineVars, scoreVars, siteVars, automationVars>>

\* rollback(target_version): create_rollback_version from the current version,
\* saved as a new version
Rollback ==
    /\ Len(history) < MaxVersions
    /\ \E target \in 1..MaxVersions :
           /\ \E i \in DOMAIN history : history[i].version = target
           /\ history' = SaveVersion(history,
                             CreateRollbackVersion(CurrentVersion(history), target, history))
    /\ UNCHANGED <<pipelineVars, scoreVars, siteVars, automationVars>>

NextRulebook ==
    \/ ApplyUpdate
    \/ Rollback

SpecRulebook == Init /\ [][NextRulebook]_vars

\* ------------------------------------------------------------------ scoring an article
InitScore ==
    /\ InitPipelineWith(FALSE)
    /\ InitRulebookWith(CHOOSE rules \in InitialRulebooks : TRUE)
    /\ InitSiteIdle
    /\ InitAutomationIdle
    /\ article \in Articles
    /\ score_rulebook \in ScoreRulebooks
    /\ score_result = None

\* check_quality steps 5 and 6 on the article and rulebook at hand
ComputeScore ==
    /\ score_result = None
    /\ LET breakdown == SubScores(article, score_rulebook)
       IN  score_result' = [breakdown |-> breakdown,
                            final_score |-> FinalScore(breakdown, score_rulebook)]
    /\ UNCHANGED <<pipelineVars, rulebookVars, siteVars, automationVars, article, score_rulebook>>

NextScore ==
    \/ ComputeScore

SpecScore == InitScore /\ [][NextScore]_vars

\* ------------------------------------------------------------------ resolving sites
InitMultisite ==
    /\ InitPipelineWith(FALSE)
    /\ InitRulebookWith(CHOOSE rules \in InitialRulebooks : TRUE)
    /\ InitScoreIdle
    /\ InitAutomationIdle
    /\ environ \in Environs
    /\ site_list = <<>>
    /\ site_config = None

\* validate_multisite_setup: sites = get_site_list()
GetSiteList ==
    /\ site_list = <<>>
    /\ site_list' = get_site_list(environ)
    /\ UNCHANGED <<pipelineVars, rulebookVars, scoreVars, automationVars, environ, site_config>>

\* validate_multisite_setup: load_site_config(site_key) for a site of the list
LoadSiteConfig ==
    /\ site_list # <<>>
    /\ \E i \in DOMAIN site_list :
           site_config' = load_site_config(environ, site_list[i])
    /\ UNCHANGED <<pipelineVars, rulebookVars, scoreVars, automationVars, environ, site_list>>

NextMultisite ==
    \/ GetSiteList
    \/ LoadSiteConfig

SpecMultisite == InitMultisite /\ [][NextMultisite]_vars

\* ------------------------------------------------------------------ run_all_sites
InitBatch ==
    /\ InitPipelineWith(FALSE)
    /\ InitRulebookWith(CHOOSE rules \in InitialRulebooks : TRUE)
    /\ InitScoreIdle
    /\ site_list = <<>>
    /\ site_config = None
    /\ InitDedupIdle
    /\ InitRunIdle
    /\ InitHttpIdle
    /\ InitCallsIdle
    /\ environ \in BatchEnvirons
    /\ environ_at_start = environ
    /\ self_sites \in BatchSiteLists
    /\ \E mode \in BatchModes :
           /\ parallel = mode.parallel
           /\ max_workers = mode.max_workers
    /\ jitter_sleep \in BOOLEAN
    /\ batch_pc = "called"
    /\ jitter_delays = [batch |-> 0, site |-> [i \in DOMAIN self_sites |-> 0]]
    /\ task_pc = [i \in DOMAIN self_sites |-> "pending"]
    /\ task_config = [i \in DOMAIN self_sites |-> None]
    /\ task_result = [i \in DOMAIN self_sites |-> None]
    /\ results = <<>>
    /\ batch_summary = None

InProgress(i) == task_pc[i] \in {"loaded", "running"}
Finished(i) == task_pc[i] \in {"returned", "raised"}

\* run_all_sites up to the call of _run_parallel or _run_sequential
StartBatch ==
    /\ batch_pc = "called"
    /\ batch_pc' = "running"
    /\ jitter_delays' =
           IF jitter_sleep /\ Len(self_sites) > 1
             THEN [jitter_delays EXCEPT !.batch = @ + 1]
             ELSE jitter_delays
    /\ UNCHANGED <<pipelineVars, rulebookVars, scoreVars, dedupVars, runVars, httpVars, callVars,
                   siteVars, self_sites, parallel,
                   max_workers, jitter_sleep, environ_at_start, task_pc, task_config,
                   task_result, results, batch_summary>>

\* a _run_site call starts, in submission order, when the loop or a worker
\* of the pool is free: site_config = load_site_config(site_key)
RunSiteLoad(i) ==
    /\ batch_pc = "running"
    /\ task_pc[i] = "pending"
    /\ \A j \in 1..(i - 1) : task_pc[j] # "pending"
    /\ Cardinality({j \in DOMAIN self_sites : InProgress(j)})
           < WorkerLimit(parallel, Len(self_sites), max_workers)
    /\ task_config' = [task_config EXCEPT ![i] = load_site_config(environ, self_sites[i])]
    /\ task_pc' = [task_pc EXCEPT ![i] = "loaded"]
    /\ UNCHANGED <<pipelineVars, rulebookVars, scoreVars, dedupVars, runVars, httpVars, callVars,
                   siteVars, self_sites, parallel,
                   max_workers, jitter_sleep, batch_pc, environ_at_start, jitter_delays,
                   task_result, results, batch_summary>>

\* _run_site: apply_site_config_to_env(site_config), then run_pipeline is
\* called without enable_jitter and sleeps its own jitter
RunSiteApply(i) ==
    /\ batch_pc = "running"
    /\ task_pc[i] = "loaded"
    /\ environ' = apply_site_config_to_env(environ, task_config[i])
    /\ jitter_delays' = [jitter_delays EXCEPT !.site[i] = @ + 1]
    /\ task_pc' = [task_pc EXCEPT ![i] = "running"]
    /\ UNCHANGED <<pipelineVars, rulebookVars, scoreVars, dedupVars, runVars, httpVars, callVars,
                   site_list, site_config, self_sites,
                   parallel, max_workers, jitter_sleep, batch_pc, environ_at_start,
                   task_config, task_result, results, batch_summary>>

\* the _run_site call ends and the loop stores the site's dict
RunSiteFinish(i) ==
    /\ batch_pc = "running"
    /\ task_pc[i] = "running"
    /\ \E outcome \in SiteOutcomes :
           /\ task_pc' = [task_pc EXCEPT
                             ![i] = IF outcome = Raised THEN "raised" ELSE "returned"]
           /\ task_result' = [task_result EXCEPT ![i] = SiteResult(self_sites[i], outcome)]
           /\ results' = DictSet(results, self_sites[i], SiteResult(self_sites[i], outcome))
           /\ batch_pc' = BatchAfter(outcome)
    /\ UNCHANGED <<pipelineVars, rulebookVars, scoreVars, dedupVars, runVars, httpVars, callVars,
                   siteVars, self_sites, parallel,
                   max_workers, jitter_sleep, environ_at_start, jitter_delays,
                   task_config, batch_summary>>

\* the loop is over: return self._generate_summary()
GenerateSummary ==
    /\ batch_pc = "running"
    /\ \A i \in DOMAIN self_sites : Finished(i)
    /\ batch_summary' = generate_summary(results, parallel)
    /\ batch_pc' = "done"
    /\ UNCHANGED <<pipelineVars, rulebookVars, scoreVars, dedupVars, runVars, httpVars, callVars,
                   siteVars, self_sites, parallel,
                   max_workers, jitter_sleep, environ_at_start, jitter_delays, task_pc,
                   task_config, task_result, results>>

NextBatch ==
    \/ StartBatch
    \/ \E i \in DOMAIN self_sites : RunSiteLoad(i)
    \/ \E i \in DOMAIN self_sites : RunSiteApply(i)
    \/ \E i \in DOMAIN self_sites : RunSiteFinish(i)
    \/ GenerateSummary

SpecBatch == InitBatch /\ [][NextBatch]_vars

\* ------------------------------------------------------------------ deduplicating topics
InitDedup ==
    /\ InitPipelineWith(FALSE)
    /\ InitRulebookWith(CHOOSE rules \in InitialRulebooks : TRUE)
    /\ InitScoreIdle
    /\ InitSiteIdle
    /\ InitBatchIdle
    /\ InitRunIdle
    /\ InitHttpIdle
    /\ InitCallsIdle
    /\ dedup_pc = "called"
    /\ generated_topics \in TopicLists
    /\ existing_titles \in SUBSET TopicTitles
    /\ unique_topics = <<>>

\* deduplicate_topics runs and returns unique_topics
DeduplicateTopics ==
    /\ dedup_pc = "called"
    /\ unique_topics' = deduplicate_topics(generated_topics, existing_titles)
    /\ dedup_pc' = "returned"
    /\ UNCHANGED <<pipelineVars, rulebookVars, scoreVars, siteVars, batchVars, runVars,
                   httpVars, callVars, generated_topics, existing_titles>>

NextDedup ==
    \/ DeduplicateTopics

SpecDedup == InitDedup /\ [][NextDedup]_vars

\* ------------------------------------------------------------------ run_pipeline
InitRun ==
    /\ InitPipelineWith(FALSE)
    /\ InitRulebookWith(CHOOSE rules \in InitialRulebooks : TRUE)
    /\ InitScoreIdle
    /\ site_list = <<>>
    /\ site_config = None
    /\ InitBatchIdle
    /\ InitHttpIdle
    /\ InitCallsIdle
    /\ dedup_pc = "idle"
    /\ generated_topics = <<>>
    /\ existing_titles = {}
    /\ unique_topics = <<>>
    /\ environ \in RunEnvirons
    /\ shared_config = Config(environ)
    /\ run_pc = "called"
    /\ run_args \in RunArgs
    /\ patched_config \in {None, ResolvedStandIn(environ)} \cup StandInConfigs
    /\ run_site_config = None
    /\ actual_topic_count = 0
    /\ pipeline_log = <<>>
    /\ job_run_id = 0
    /\ api_calls = <<>>
    /\ processed = <<>>
    /\ drafts_created = 0
    /\ publish_errors = 0
    /\ create_post_log = <<>>
    /\ wp_requests = <<>>
    /\ exit_code = None

outsideRun == <<pipelineVars, rulebookVars, scoreVars, siteVars, batchVars, httpVars, callVars,
                dedup_pc, existing_titles>>
runInputs == <<run_args, patched_config>>
loopVars == <<processed, drafts_created, publish_errors, create_post_log, wp_requests>>

\* the except clause of run_pipeline: the failure is logged, job_run_finish
\* is called for a job that was started, the summary is returned
PipelineFailed ==
    /\ pipeline_log' = log_event(pipeline_log, "pipeline_failed", FALSE)
    /\ api_calls' = IF job_run_id # 0 THEN Append(api_calls, "job_run_finish") ELSE api_calls
    /\ run_pc' = "returned"

\* run_pipeline: the jitter
RunJitter ==
    /\ run_pc = "called"
    /\ pipeline_log' = log_event(pipeline_log,
                           IF run_args.enable_jitter THEN "jitter_applied"
                           ELSE "jitter_skipped", TRUE)
    /\ run_pc' = "jittered"
    /\ UNCHANGED <<outsideRun, runInputs, loopVars, generated_topics, unique_topics,
                   run_site_config, actual_topic_count, job_run_id, api_calls,
                   shared_config, exit_code>>

\* run_pipeline: load_site_config and the topic count; reading
\* site_config.topic_count_range raises where the object has no such attribute
RunLoadConfig ==
    /\ run_pc = "jittered"
    /\ LET cfg == IF patched_config = None THEN load_site_config(environ, RunSiteKey)
                  ELSE patched_config
       IN  /\ run_site_config' = cfg
           /\ IF "topic_count_range" \notin DOMAIN cfg
                THEN /\ PipelineFailed
                     /\ UNCHANGED actual_topic_count
                ELSE /\ \E n \in cfg.topic_count_range[1]..cfg.topic_count_range[2] :
                            actual_topic_count' =
                                IF cfg.topic_count_range[1] # cfg.topic_count_range[2] THEN n
                                ELSE IF run_args.topic_count # 5 THEN run_args.topic_count
                                ELSE cfg.topic_count
                     /\ pipeline_log' = log_event(pipeline_log, "config_loaded", TRUE)
                     /\ run_pc' = "config_loaded"
                     /\ UNCHANGED api_calls
    /\ UNCHANGED <<outsideRun, runInputs, loopVars, generated_topics, unique_topics,
                   job_run_id, shared_config, exit_code>>

\* run_pipeline: client.job_run_start in its own try; a failure is logged
\* and the run goes on
RunJobStart ==
    /\ run_pc = "config_loaded"
    /\ api_calls' = Append(api_calls, "job_run_start")
    /\ \E outcome \in {"id", "none", "raises"} :
           /\ job_run_id' = IF outcome = "id" THEN 1 ELSE 0
           /\ pipeline_log' = log_event(pipeline_log, "job_start", outcome # "raises")
    /\ run_pc' = "job_started"
    /\ UNCHANGED <<outsideRun, runInputs, loopVars, generated_topics, unique_topics,
                   run_site_config, actual_topic_count, shared_config, exit_code>>

\* run_pipeline steps 1 to 3: health_check, ensure_week, get_site_by_key;
\* a call that raises, a health that is not ok and a site that is not found
\* end the run in the except clause
RunApiStep(from, method, stage, to) ==
    /\ run_pc = from
    /\ \E outcome \in {"ok", "fails"} :
           IF outcome = "ok"
             THEN /\ api_calls' = Append(api_calls, method)
                  /\ pipeline_log' = log_event(pipeline_log, stage, TRUE)
                  /\ run_pc' = to
             ELSE /\ pipeline_log' = log_event(pipeline_log, "pipeline_failed", FALSE)
                  /\ api_calls' = IF job_run_id # 0
                                    THEN api_calls \o <<method, "job_run_finish">>
                                    ELSE Append(api_calls, method)
                  /\ run_pc' = "returned"
    /\ UNCHANGED <<outsideRun, runInputs, loopVars, generated_topics, unique_topics,
                   run_site_config, actual_topic_count, job_run_id, shared_config,
                   exit_code>>

RunHealthCheck == RunApiStep("job_started", "health_check", "health_check", "healthy")
RunEnsureWeek == RunApiStep("healthy", "ensure_week", "ensure_week", "week")
RunGetSite == RunApiStep("week", "get_site_by_key", "site_loaded", "site_loaded")

\* run_pipeline step 4: generate_topics_for_site, then deduplicate_topics;
\* a site without categories gets no topic and the run returns its summary
RunGenerateTopics ==
    /\ run_pc = "site_loaded"
    /\ \E topics \in RunTopicLists :
           /\ generated_topics' = topics
           /\ IF topics = <<>>
                THEN /\ pipeline_log' = log_event(pipeline_log, "generate_topics", FALSE)
                     /\ run_pc' = "returned"
                     /\ UNCHANGED unique_topics
                ELSE /\ unique_topics' = deduplicate_topics(topics, {})
                     /\ pipeline_log' = log_event(pipeline_log, "generate_topics", TRUE)
                     /\ run_pc' = "topics"
    /\ UNCHANGED <<outsideRun, runInputs, loopVars, run_site_config, actual_topic_count,
                   job_run_id, api_calls, shared_config, exit_code>>

\* run_pipeline step 5: client.bulk_create_topics
RunCreateTopics ==
    /\ run_pc = "topics"
    /\ \E outcome \in {"ok", "fails"} :
           IF outcome = "ok"
             THEN /\ api_calls' = Append(api_calls, "bulk_create_topics")
                  /\ pipeline_log' = log_event(pipeline_log, "create_topics", TRUE)
                  /\ run_pc' = "created"
             ELSE /\ pipeline_log' = log_event(pipeline_log, "pipeline_failed", FALSE)
                  /\ api_calls' = IF job_run_id # 0
                                    THEN api_calls \o <<"bulk_create_topics", "job_run_finish">>
                                    ELSE Append(api_calls, "bulk_create_topics")
                  /\ run_pc' = "returned"
    /\ UNCHANGED <<outsideRun, runInputs, loopVars, generated_topics, unique_topics,
                   run_site_config, actual_topic_count, job_run_id, shared_config,
                   exit_code>>

\* run_pipeline step 6 up to the loop: with publish and a topic at hand a
\* WordPressPublisher is made, and a forced dry run clears wp_base_url of
\* the config object the publisher shares; otherwise the step is logged as
\* skipped
RunStartPublishing ==
    /\ run_pc = "created"
    /\ IF run_args.publish /\ unique_topics # <<>>
         THEN /\ shared_config' =
                     IF SiteHasWordpressConfig(run_site_config)
                          /\ run_args.dry_run_wp = "True"
                       THEN [shared_config EXCEPT !.wp_base_url = NoValue]
                       ELSE shared_config
              /\ run_pc' = "loop"
              /\ UNCHANGED pipeline_log
         ELSE /\ pipeline_log' = log_event(pipeline_log, "wordpress_publish", TRUE)
              /\ run_pc' = "finishing"
              /\ UNCHANGED shared_config
    /\ UNCHANGED <<outsideRun, runInputs, loopVars, generated_topics, unique_topics,
                   run_site_config, actual_topic_count, job_run_id, api_calls, exit_code>>

\* one pass of the publishing loop: generate_post, then create_post; an
\* exception of either is caught, counted, and the loop goes on
RunPublishTopic ==
    /\ run_pc = "loop"
    /\ Len(processed) < Len(unique_topics)
    /\ LET topic == unique_topics[Len(processed) + 1]
       IN  \E generated \in BOOLEAN, response \in WordpressResponses :
               LET call == create_post(shared_config, topic.title, "draft", response)
                   failed == ~generated \/ call.raised
               IN  /\ processed' = Append(processed, [id |-> topic.id, ok |-> ~failed])
                   /\ create_post_log' =
                          IF generated
                            THEN Append(create_post_log,
                                     [topic |-> topic.id,
                                      configured |-> HasWordpressConfig(shared_config),
                                      call |-> call])
                            ELSE create_post_log
                   /\ wp_requests' =
                          IF generated /\ call.sent
                            THEN Append(wp_requests,
                                     [url |-> shared_config.wp_base_url,
                                      title |-> topic.title, status |-> "draft"])
                            ELSE wp_requests
                   /\ drafts_created' =
                          IF ~failed /\ call.result.id # "dry-run"
                            THEN drafts_created + 1 ELSE drafts_created
                   /\ publish_errors' = IF failed THEN publish_errors + 1 ELSE publish_errors
                   /\ IF failed /\ AfterTopicError # "loop"
                        THEN PipelineFailed
                        ELSE /\ run_pc' = "loop"
                             /\ UNCHANGED <<pipeline_log, api_calls>>
    /\ UNCHANGED <<outsideRun, runInputs, generated_topics, unique_topics, run_site_config,
                   actual_topic_count, job_run_id, shared_config, exit_code>>

\* the loop is over: the step is logged, as a success whatever the number
\* of errors
RunLogPublishing ==
    /\ run_pc = "loop"
    /\ Len(processed) = Len(unique_topics)
    /\ pipeline_log' = log_event(pipeline_log, "wordpress_publish", TRUE)
    /\ run_pc' = "finishing"
    /\ UNCHANGED <<outsideRun, runInputs, loopVars, generated_topics, unique_topics,
                   run_site_config, actual_topic_count, job_run_id, api_calls,
                   shared_config, exit_code>>

\* run_pipeline: job_run_finish for a job that was started, then the
\* summary is returned
RunJobFinish ==
    /\ run_pc = "finishing"
    /\ IF job_run_id # 0
         THEN /\ api_calls' = Append(api_calls, "job_run_finish")
              /\ \E ok \in BOOLEAN :
                     pipeline_log' = log_event(pipeline_log, "job_finish", ok)
         ELSE UNCHANGED <<api_calls, pipeline_log>>
    /\ run_pc' = "returned"
    /\ UNCHANGED <<outsideRun, runInputs, loopVars, generated_topics, unique_topics,
                   run_site_config, actual_topic_count, job_run_id, shared_config,
                   exit_code>>

\* main: the exit code for the summary run_pipeline returned
RunExit ==
    /\ run_pc = "returned"
    /\ exit_code' = ExitCode(get_summary(pipeline_log))
    /\ run_pc' = "exited"
    /\ UNCHANGED <<outsideRun, runInputs, loopVars, generated_topics, unique_topics,
                   run_site_config, actual_topic_count, pipeline_log, job_run_id,
                   api_calls, shared_config>>

NextRun ==
    \/ RunJitter
    \/ RunLoadConfig
    \/ RunJobStart
    \/ RunHealthCheck
    \/ RunEnsureWeek
    \/ RunGetSite
    \/ RunGenerateTopics
    \/ RunCreateTopics
    \/ RunStartPublishing
    \/ RunPublishTopic
    \/ RunLogPublishing
    \/ RunJobFinish
    \/ RunExit

SpecRun == InitRun /\ [][NextRun]_vars

\* ------------------------------------------------------------------ one HTTP call
InitHttp ==
    /\ InitPipelineWith(FALSE)
    /\ InitRulebookWith(CHOOSE rules \in InitialRulebooks : TRUE)
    /\ InitScoreIdle
    /\ InitSiteIdle
    /\ InitBatchIdle
    /\ InitDedupIdle
    /\ InitRunIdle
    /\ InitCallsIdle
    /\ http_pc = "called"
    /\ http_client \in HttpClients
    /\ http_method \in HttpMethods
    /\ http_responses = <<>>
    /\ http_error = None

\* the session sends the request, or sends it again, and gets a response;
\* the call returns, raises, or waits for the next attempt
HttpExchange ==
    /\ http_pc \in {"called", "waiting"}
    /\ \E status \in HttpStatuses :
           LET sent == Len(http_responses) + 1
           IN  /\ http_responses' = Append(http_responses, status)
               /\ IF SessionRetries(http_client, http_method, status, sent)
                    THEN /\ http_pc' = "waiting"
                         /\ UNCHANGED http_error
                    ELSE /\ http_error' = HttpErrorFor(http_client, http_method, status)
                         /\ http_pc' = IF status < 400 THEN "returned" ELSE "raised"
    /\ UNCHANGED <<pipelineVars, rulebookVars, scoreVars, siteVars, batchVars, dedupVars,
                   runVars, callVars, http_client, http_method>>

NextHttp ==
    \/ HttpExchange

SpecHttp == InitHttp /\ [][NextHttp]_vars

\* ------------------------------------------------------------------ one bulk_create_topics call
InitBulk ==
    /\ InitPipelineWith(FALSE)
    /\ InitRulebookWith(CHOOSE rules \in InitialRulebooks : TRUE)
    /\ InitScoreIdle
    /\ InitSiteIdle
    /\ InitBatchIdle
    /\ InitDedupIdle
    /\ InitRunIdle
    /\ InitHttpIdle
    /\ bulk_pc = "called"
    /\ bulk_topics \in BulkTopicLists
    /\ bulk_result = None
    /\ http_payload = None
    /\ InitCountIdle
    /\ InitGenIdle

\* bulk_create_topics up to its call of _make_request
BulkCreateTopics ==
    /\ bulk_pc = "called"
    /\ IF bulk_topics = <<>>
         THEN /\ bulk_result' = [count |-> 0]
              /\ bulk_pc' = "returned"
              /\ UNCHANGED <<httpVars, http_payload>>
       ELSE IF ValidateTopics(bulk_topics) # None
         THEN /\ bulk_result' = [type |-> "ValueError"] @@ ValidateTopics(bulk_topics)
              /\ bulk_pc' = "raised"
              /\ UNCHANGED <<httpVars, http_payload>>
       ELSE /\ http_payload' = [topics |-> bulk_topics]
            /\ http_pc' = "called"
            /\ http_client' = "api"
            /\ http_method' = "POST"
            /\ bulk_pc' = "requesting"
            /\ UNCHANGED <<bulk_result, http_responses, http_error>>
    /\ UNCHANGED <<pipelineVars, rulebookVars, scoreVars, siteVars, batchVars, dedupVars,
                   runVars, bulk_topics, countVars, genVars>>

\* _make_request has returned or raised: so does bulk_create_topics
BulkCreateTopicsDone ==
    /\ bulk_pc = "requesting"
    /\ http_pc \in {"returned", "raised"}
    /\ bulk_pc' = http_pc
    /\ bulk_result' = IF http_pc = "returned" THEN [count |-> Len(bulk_topics)]
                      ELSE http_error
    /\ UNCHANGED <<pipelineVars, rulebookVars, scoreVars, siteVars, batchVars, dedupVars,
                   runVars, httpVars, bulk_topics, http_payload, countVars, genVars>>

NextBulk ==
    \/ BulkCreateTopics
    \/ HttpExchange
    \/ BulkCreateTopicsDone

SpecBulk == InitBulk /\ [][NextBulk]_vars

\* ------------------------------------------------------------------ one get_topic_count_range call
InitCount ==
    /\ InitPipelineWith(FALSE)
    /\ InitRulebookWith(CHOOSE rules \in InitialRulebooks : TRUE)
    /\ InitScoreIdle
    /\ InitSiteIdle
    /\ InitBatchIdle
    /\ InitDedupIdle
    /\ InitRunIdle
    /\ InitHttpIdle
    /\ InitBulkIdle
    /\ InitGenIdle
    /\ count_pc = "called"
    /\ count_text \in TopicCountTexts
    /\ count_range = <<>>

GetTopicCountRange ==
    /\ count_pc = "called"
    /\ count_range' = get_topic_count_range(count_text)
    /\ count_pc' = "returned"
    /\ UNCHANGED <<pipelineVars, rulebookVars, scoreVars, siteVars, batchVars, dedupVars,
                   runVars, httpVars, bulkVars, genVars, count_text>>

NextCount ==
    \/ GetTopicCountRange

SpecCount == InitCount /\ [][NextCount]_vars

\* ------------------------------------------------------------------ one generate_topics_for_site call
InitGen ==
    /\ InitPipelineWith(FALSE)
    /\ InitRulebookWith(CHOOSE rules \in InitialRulebooks : TRUE)
    /\ InitScoreIdle
    /\ InitSiteIdle
    /\ InitBatchIdle
    /\ InitDedupIdle
    /\ InitRunIdle
    /\ InitHttpIdle
    /\ InitBulkIdle
    /\ InitCountIdle
    /\ gen_pc = "called"
    /\ gen_site \in GenSites
    /\ gen_count \in 1..MaxGenCount
    /\ gen_topics = <<>>

\* generate_topic_title draws the title at random and may return one that
\* was used when ten more draws gave used titles too
GenerateTopicsForSite ==
    /\ gen_pc = "called"
    /\ LET category_ids == IF gen_site.categories = <<>> THEN <<>>
                           ELSE CategoryOfTopics(gen_site.categories, gen_count, 0)
       IN  \E titles \in [DOMAIN category_ids -> TopicTitles] :
               gen_topics' = [j \in DOMAIN category_ids |->
                                 [siteId |-> gen_site.id, categoryId |-> category_ids[j],
                                  title |-> titles[j], approved |-> FALSE]]
    /\ gen_pc' = "returned"
    /\ UNCHANGED <<pipelineVars, rulebookVars, scoreVars, siteVars, batchVars, dedupVars,
                   runVars, httpVars, bulkVars, countVars, gen_site, gen_count>>

NextGen ==
    \/ GenerateTopicsForSite

SpecGen == InitGen /\ [][NextGen]_vars

\* ------------------------------------------------------------------ claims on the gate
\* the gate's inputs in the run in progress
GateScore == quality_result.score
GateThreshold == global_rulebook.enforcement.default_min_quality_score
GateBlockBelow == Get(global_rulebook.enforcement, "block_publish_if_below", FALSE)
GateTag == Get(global_rulebook.enforcement, "tag_if_below", "review-needed")

\* C1: the gate is total and deterministic: whenever a decision has been made,
\* it is the one the table gives for (score, threshold, block_below): publish
\* with no tags when score >= threshold, block when score < threshold and
\* block_below, publish_with_review_tag when score < threshold and not
\* block_below; the decision is thus a function of its inputs.
C1_GateTotalDeterministic ==
    publish_decision # None =>
        /\ publish_decision.action \in {"publish", "block", "publish_with_review_tag"}
        /\ (GateScore >= GateThreshold) =>
               /\ publish_decision.action = "publish"
               /\ publish_decision.tags = <<>>
        /\ (GateScore < GateThreshold /\ GateBlockBelow) =>
               publish_decision.action = "block"
        /\ (GateScore < GateThreshold /\ ~GateBlockBelow) =>
               publish_decision.action = "publish_with_review_tag"

\* a score that passes the threshold 75 and fails the threshold 80 has been
\* decided under both kinds of rulebook outcome: here it failed and was blocked
C1_Witness ==
    /\ publish_decision # None
    /\ GateScore = 78
    /\ GateThreshold = 80
    /\ GateBlockBelow
    /\ publish_decision.action = "block"

\* the create_post calls made for a topic
CallsFor(topic) == {i \in DOMAIN create_post_calls : create_post_calls[i][1].title = topic}

\* C2: whenever the decision for the topic of the run in progress is block,
\* no create_post call has been made for that topic.
C2_BlockedNeverCallsCreatePost ==
    (publish_decision # None /\ publish_decision.action = "block") =>
        CallsFor(topic_id) = {}

\* the second topic's run ended blocked, with publishing requested and a
\* publisher configured, after the first topic's run did call create_post
C2_Witness ==
    /\ pc = "done"
    /\ topic_id = 2
    /\ publish
    /\ wp_publisher
    /\ run_result.success
    /\ publish_decision.action = "block"
    /\ wordpress_result = [success |-> FALSE, reason |-> "blocked"]
    /\ CallsFor(1) # {}

\* C3: when the score is below the threshold and block_publish_if_below is
\* false, the decision is publish_with_review_tag with tags = {tag_if_below},
\* and (publishing being requested and a publisher configured) a post for the
\* topic carrying that tag reaches the publishing collaborator.
C3_ReviewIsPublishedWithTag ==
    (/\ pc = "done"
     /\ run_result.success
     /\ publish
     /\ wp_publisher
     /\ GateScore < GateThreshold
     /\ ~GateBlockBelow) =>
        /\ publish_decision.action = "publish_with_review_tag"
        /\ Range(publish_decision.tags) = {GateTag}
        /\ \E i \in DOMAIN wp_posts :
               /\ wp_posts[i].title = topic_id
               /\ "tags" \in DOMAIN wp_posts[i]
               /\ GateTag \in Range(wp_posts[i].tags)

\* ------------------------------------------------------------------ claims on the rulebook
IsResearch(rec) == rec.research_metadata.update_method = "research"
IsRollback(rec) == rec.research_metadata.update_method = "rollback"

\* every record after version record i, up to record j, is a research update
UpdatesOnly(i, j) == \A k \in (i + 1)..j : IsResearch(history[k])

\* the (section, field) pairs of one kind that a rulebook carries
Fields(rules, kind) ==
    UNION { {s} \X {f \in DOMAIN rules[s] : FieldKind(f) = kind} : s \in DOMAIN rules }

Has(rules, s, f) == s \in DOMAIN rules /\ f \in DOMAIN rules[s]
Proposes(insights, s, f) == s \in DOMAIN insights /\ f \in DOMAIN insights[s].new_requirements
Proposal(insights, s, f) == insights[s].new_requirements[f]

\* the records a research update produced, each with the record it updated
UpdateRecords == {k \in DOMAIN history : k > 1 /\ IsResearch(history[k])}

\* C4: over any sequence of updates no numeric minimum goes down and no range
\* maximum goes up, and each update gives new_min = max(current, proposed) and
\* new_max = min(current, proposed).
C4_NumericNeverRelaxed ==
    /\ \A i, j \in DOMAIN history :
         (i < j /\ UpdatesOnly(i, j)) =>
           /\ \A <<s, f>> \in Fields(history[i].rules, "range") :
                /\ Has(history[j].rules, s, f)
                /\ history[j].rules[s][f].min >= history[i].rules[s][f].min
                /\ history[j].rules[s][f].max <= history[i].rules[s][f].max
           /\ \A <<s, f>> \in Fields(history[i].rules, "min") :
                /\ Has(history[j].rules, s, f)
                /\ history[j].rules[s][f] >= history[i].rules[s][f]
    /\ \A k \in UpdateRecords :
         LET old == history[k - 1].rules
             new == history[k].rules
             ins == history[k].sources
         IN  /\ \A <<s, f>> \in Fields(old, "range") :
                  Proposes(ins, s, f) =>
                    /\ new[s][f].min \in {old[s][f].min, Proposal(ins, s, f).min}
                    /\ new[s][f].min >= Proposal(ins, s, f).min
                    /\ new[s][f].max \in {old[s][f].max, Proposal(ins, s, f).max}
                    /\ new[s][f].max <= Proposal(ins, s, f).max
             /\ \A <<s, f>> \in Fields(old, "min") :
                  Proposes(ins, s, f) =>
                    /\ new[s][f] \in {old[s][f], Proposal(ins, s, f)}
                    /\ new[s][f] >= Proposal(ins, s, f)

\* two updates in a row: the first raised internal_links_min from 2 to 3, the
\* second proposed 2 and a wider title range, and the values stayed
C4_Witness ==
    /\ Len(history) >= 3
    /\ UpdatesOnly(1, 3)
    /\ history[1].rules.seo.internal_links_min = 2
    /\ history[2].rules.seo.internal_links_min = 3
    /\ Proposes(history[3].sources, "seo", "internal_links_min")
    /\ Proposal(history[3].sources, "seo", "internal_links_min") = 2
    /\ Proposal(history[3].sources, "seo", "title_length").max = 70
    /\ history[3].rules.seo.internal_links_min = 3
    /\ history[3].rules.seo.title_length = [min |-> 45, max |-> 55]

\* C5: over any sequence of updates a boolean requirement that is true stays
\* true, and each update gives new = current OR proposed.
C5_BooleanOnlyTurnsOn ==
    /\ \A i, j \in DOMAIN history :
         (i < j /\ UpdatesOnly(i, j)) =>
           \A <<s, f>> \in Fields(history[i].rules, "bool") :
              /\ Has(history[j].rules, s, f)
              /\ history[i].rules[s][f] => history[j].rules[s][f]
    /\ \A k \in UpdateRecords :
         \A <<s, f>> \in Fields(history[k - 1].rules, "bool") :
            Proposes(history[k].sources, s, f) =>
              history[k].rules[s][f] =
                (history[k - 1].rules[s][f] \/ Proposal(history[k].sources, s, f))

\* an update proposed require_author_bio = false while it was true
C5_Witness ==
    \E k \in UpdateRecords :
       /\ history[k - 1].rules.eeat.require_author_bio
       /\ Proposes(history[k].sources, "eeat", "require_author_bio")
       /\ ~Proposal(history[k].sources, "eeat", "require_author_bio")
       /\ history[k].rules.eeat.require_author_bio

\* C6: over any sequence of updates every set/list field keeps all its
\* elements, and each update gives the union of the current and the proposed
\* elements.
C6_ListsOnlyGrow ==
    /\ \A i, j \in DOMAIN history :
         (i < j /\ UpdatesOnly(i, j)) =>
           \A <<s, f>> \in Fields(history[i].rules, "set") :
              /\ Has(history[j].rules, s, f)
              /\ history[i].rules[s][f] \subseteq history[j].rules[s][f]
    /\ \A k \in UpdateRecords :
         \A <<s, f>> \in Fields(history[k - 1].rules, "set") :
            Proposes(history[k].sources, s, f) =>
              \A x \in {"*.gov", "*.edu", "keyword stuffing", "link spam"} :
                 x \in history[k].rules[s][f] <=>
                   (x \in history[k - 1].rules[s][f] \/ x \in Proposal(history[k].sources, s, f))

\* an update added a prohibited pattern and an allowed domain to the ones there
C6_Witness ==
    \E k \in UpdateRecords :
       /\ Has(history[k - 1].rules, "prohibited", "over_optimization_patterns")
       /\ history[k - 1].rules.prohibited.over_optimization_patterns = {"keyword stuffing"}
       /\ history[k].rules.prohibited.over_optimization_patterns =
            {"keyword stuffing", "link spam"}
       /\ history[k].rules.eeat.allowed_source_domains = {"*.gov", "*.edu"}

\* C7: merging the same research insight a second time, right after the first,
\* gives the rules the first merge gave.
C7_MergeIdempotent ==
    \A k \in UpdateRecords :
       (k - 1 \in UpdateRecords /\ history[k].sources = history[k - 1].sources) =>
          history[k].rules = history[k - 1].rules

\* the same insight was merged twice and its first merge changed the rules
C7_Witness ==
    \E k \in UpdateRecords :
       /\ k - 1 \in UpdateRecords
       /\ history[k].sources = history[k - 1].sources
       /\ history[k - 1].rules # history[k - 2].rules
       /\ history[k - 1].rules.seo.internal_links_min > history[k - 2].rules.seo.internal_links_min

\* a proposed value is no stricter than the current one
NoStricter(f, prop, cur) ==
    CASE FieldKind(f) = "range" -> prop.min <= cur.min /\ prop.max >= cur.max
      [] FieldKind(f) = "min" -> prop <= cur
      [] FieldKind(f) = "bool" -> prop => cur
      [] FieldKind(f) = "set" -> prop \subseteq cur

\* every value the insights propose is for a field the rules have and is no
\* stricter than the rules' value
Permissive(insights, rules) ==
    \A s \in DOMAIN insights :
       \A f \in DOMAIN insights[s].new_requirements :
          /\ Has(rules, s, f)
          /\ NoStricter(f, Proposal(insights, s, f), rules[s][f])

\* C8: an update whose proposed values are all more permissive than (or equal
\* to) the current ones leaves the rules unchanged.
C8_PermissiveUpdateIsNoOp ==
    \A k \in UpdateRecords :
       Permissive(history[k].sources, history[k - 1].rules) =>
          history[k].rules = history[k - 1].rules

\* current internal_links_min = 4 and title_length {50, 60}; proposed 2 and {40, 70}
C8_Witness ==
    \E k \in UpdateRecords :
       /\ history[k - 1].rules.seo.internal_links_min = 4
       /\ history[k - 1].rules.seo.title_length = [min |-> 50, max |-> 60]
       /\ history[k].sources =
            [seo |-> [new_requirements |->
                        [title_length |-> [min |-> 40, max |-> 70], internal_links_min |-> 2]]]
       /\ history[k].rules.seo.internal_links_min = 4

\* C9: a step that saves a research update adds exactly one record, with
\* version = current version + 1, changes and removes no earlier record, and
\* leaves the version numbers strictly increasing.
C9_HistoryAppendOnly ==
    [][ (history' # history /\ IsResearch(Last(history'))) =>
          /\ Len(history') = Len(history) + 1
          /\ SubSeq(history', 1, Len(history)) = history
          /\ Last(history').version = CurrentVersion(history) + 1
          /\ \A i, j \in DOMAIN history' :
                i < j => history'[i].version < history'[j].version ]_vars

\* three versions, the last two saved by research updates
C9_Witness ==
    /\ Len(history) = 3
    /\ IsResearch(history[2])
    /\ IsResearch(history[3])
    /\ history[3].version = 3
    /\ history[3].rules # history[1].rules

\* C10: a rollback step adds one record whose rules are the target version's
\* rules, with a version number above the current one, and changes and removes
\* no earlier record.
C10_RollbackAppendsTargetRules ==
    [][ (history' # history /\ IsRollback(Last(history'))) =>
          LET new == Last(history')
              target == new.research_metadata.rollback_to
          IN  /\ Len(history') = Len(history) + 1
              /\ SubSeq(history', 1, Len(history)) = history
              /\ new.research_metadata.rollback_from = CurrentVersion(history)
              /\ new.version > CurrentVersion(history)
              /\ \E i \in DOMAIN history :
                    /\ history[i].version = target
                    /\ new.rules = history[i].rules ]_vars

\* version 3 rolled back to version 1, whose rules differ from version 2's
C10_Witness ==
    /\ Len(history) >= 3
    /\ IsRollback(history[3])
    /\ history[3].research_metadata.rollback_to = 1
    /\ history[3].rules = history[1].rules
    /\ history[2].rules # history[1].rules
    /\ history[3].version = 3

\* ------------------------------------------------------------------ claims on the pipeline run
\* the stages of one run in the order the claims give them
StageOrder == <<"outline", "sections", "eeat", "quality", "gate", "publish">>

IsPrefix(s, t) == Len(s) <= Len(t) /\ \A i \in 1..Len(s) : s[i] = t[i]

Called(stage) == stage \in Range(stages_run)

RunSucceeded == run_result # None /\ run_result.success
RunFailed == run_result # None /\ ~run_result.success

\* C11: no step of a pipeline run changes the rulebook the run loaded, nor
\* the stored rulebook versions: from the outline stage to the return of the
\* run, global_rulebook and the version history keep their values.
C11_RunLeavesRulebookUnchanged ==
    [][ pc \notin {"idle", "done"} =>
          /\ global_rulebook' = global_rulebook
          /\ history' = history ]_vars

\* a run that built its outline from the rulebook's layout, passed the
\* rulebook to every later stage and returned
C11_Witness ==
    /\ pc = "done"
    /\ RunSucceeded
    /\ ~override_rulebook
    /\ outline_result.outline = global_rulebook.aio.content_layout
    /\ publish_decision.reason[3] = global_rulebook.enforcement.default_min_quality_score
    /\ global_rulebook \in Rulebooks

\* C14: once the quality assessment has been called, the run has a quality
\* result and is not a failed run: an analyzer that raises gives a degraded
\* result instead of an exception that ends the run.
C14_AssessmentNeverFailsTheRun ==
    Called("quality") =>
        /\ quality_result # None
        /\ ~RunFailed

\* C15: the stages a run has called are a prefix of Outline, Sections,
\* EEAT-Enrichment, QualityAssessor, PublishGate, Publish; each stage is
\* called only when the previous stage has returned its result, and Publish
\* only when the gate decision exists.
C15_StagesInOrder ==
    /\ IsPrefix(stages_run, StageOrder)
    /\ Called("sections") => outline_result # None
    /\ Called("eeat") => draft_result # None
    /\ Called("quality") => final_content # None
    /\ Called("gate") => quality_result # None
    /\ Called("publish") => publish_decision # None

\* a run that went through all six stages, publishing included
C15_Witness ==
    /\ pc = "done"
    /\ stages_run = StageOrder
    /\ wordpress_result # None

\* C16: when a run has failed, it has stopped (no stage after the failed one
\* was called, no stage was called twice) and the failure record names the
\* stage that failed.
C16_FailureStopsRunAndNamesStage ==
    RunFailed =>
        /\ pc = "done"
        /\ IsPrefix(stages_run, StageOrder)
        /\ publish_decision = None /\ wordpress_result = None
        /\ run_result.pipeline_metrics.failed_stage = Last(stages_run)

\* C17: every successful run has a quality report and a publish decision and
\* records both (the score in the returned dict and in the job metadata, the
\* decision in the job metadata); a run whose decision is block ends as a
\* successful run.
C17_SuccessRecordsReportAndDecision ==
    /\ RunSucceeded =>
         /\ quality_result # None
         /\ publish_decision # None
         /\ publish_decision.action \in {"publish", "block", "publish_with_review_tag"}
         /\ run_result.quality_score = quality_result.score
         /\ run_result.pipeline_metrics.quality_metrics.final_score = quality_result.score
         /\ run_result.pipeline_metrics.publishing.decision = publish_decision
    /\ (pc = "done" /\ publish_decision # None /\ publish_decision.action = "block") =>
         RunSucceeded

\* a blocked topic whose run returned success with its score and decision
C17_Witness ==
    /\ pc = "done"
    /\ RunSucceeded
    /\ publish_decision.action = "block"
    /\ run_result.pipeline_metrics.publishing.decision.action = "block"
    /\ run_result.quality_score < GateThreshold

\* enrich.generate_post's pipeline_metrics for the result of its last stage
generate_post_metrics(final_result) ==
    [stages_completed |-> 3, total_cost_usd |-> final_result.metadata.total_pipeline_cost]

\* the sums over the three generation stages of the run in progress
SumOfStageTokens ==
    outline_result.metadata.metrics.tokens + draft_result.metadata.metrics.tokens
      + final_content.metadata.metrics.tokens
SumOfStageCosts ==
    outline_result.metadata.metrics.cost_usd + draft_result.metadata.metrics.cost_usd
      + final_content.metadata.metrics.cost_usd

\* C18: the token total and the cost totals reported for a topic (by the job
\* metadata of the run and by the pipeline metrics built from the enriched
\* result) equal the sums of the token and cost estimates of the outline,
\* sections and enrichment stages.
C18_TotalsAreSumsOfThreeStages ==
    RunSucceeded =>
        /\ run_result.pipeline_metrics.generation_metrics.total_tokens = SumOfStageTokens
        /\ run_result.pipeline_metrics.generation_metrics.total_cost_usd = SumOfStageCosts
        /\ generate_post_metrics(run_result.final_content).total_cost_usd = SumOfStageCosts

\* ------------------------------------------------------------------ claims on the quality score
\* the values score_weights holds for its categories, added up
RECURSIVE SumOver(_, _)
SumOver(f, keys) ==
    IF keys = {} THEN 0
    ELSE LET k == CHOOSE x \in keys : TRUE IN f[k] + SumOver(f, keys \ {k})

\* the rulebook's score_weights sum to 1.0 within 0.001 (a rulebook without
\* score_weights gets the defaults, which do)
WeightsSumToOne ==
    LET score_weights == Get(score_rulebook, "score_weights", DefaultWeights)
        total == SumOver(score_weights, DOMAIN score_weights)
    IN  total >= WeightUnit - 1 /\ total <= WeightUnit + 1

SubScoresInRange ==
    \A k \in DOMAIN score_result.breakdown :
        score_result.breakdown[k] >= 0 /\ score_result.breakdown[k] <= 100

\* C12: whenever the score_weights sum to 1.0 (within 0.001) and the
\* sub-scores lie in [0,100], the overall score is an integer in [0,100].
C12_OverallScoreInRange ==
    (score_result # None /\ WeightsSumToOne /\ SubScoresInRange) =>
        score_result.final_score \in 0..100

\* the weighted sum of the scored article, in thousandths
ScoredSum == WeightedSum(score_result.breakdown, score_rulebook)

\* C13 as stated: the overall score is the integer nearest to the weighted
\* sum of the four sub-scores.
C13_ScoreIsNearestInteger ==
    score_result # None =>
        /\ 2 * (score_result.final_score * WeightUnit - ScoredSum) <= WeightUnit
        /\ 2 * (ScoredSum - score_result.final_score * WeightUnit) <= WeightUnit

\* C13 amended: the overall score is the weighted sum of the four sub-scores
\* cut down to an integer (the largest integer not above the sum), each
\* category weighted by its score_weights entry or, where the entry or the
\* whole mapping is missing, by its default 0.35/0.30/0.20/0.15.
C13_ScoreIsTruncatedSum ==
    score_result # None =>
        /\ score_result.breakdown = SubScores(article, score_rulebook)
        /\ score_result.final_score * WeightUnit <= ScoredSum
        /\ ScoredSum < (score_result.final_score + 1) * WeightUnit

\* an article scored with the default weights whose weighted sum lies more
\* than one half above its overall score
C13_Witness ==
    /\ score_result # None
    /\ "score_weights" \notin DOMAIN score_rulebook
    /\ 2 * (ScoredSum - score_result.final_score * WeightUnit) > WeightUnit

\* ------------------------------------------------------------------ claims on the site list
ListedExplicit ==
    LET sites_env == Get(environ, VarName("ORION_SITES"), NoValue)
    IN  Range(ExplicitSites(sites_env))
ListedDetected == detect_sites_from_env(environ)

\* C19 as stated: the sites to run are the explicit list when one is given,
\* otherwise the auto-detected sites, otherwise the default site alone.
C19_SiteListByPriority ==
    site_list # <<>> =>
        Range(site_list) = IF ListedExplicit # {} THEN ListedExplicit
                           ELSE IF ListedDetected # {} THEN ListedDetected
                           ELSE {DefaultSite}

\* C19 amended: the sites to run are the explicit list together with the
\* auto-detected sites, each site once and in sorted order; the default site
\* alone is used only when both are empty.
C19_SiteListIsUnionOrDefault ==
    site_list # <<>> =>
        /\ Range(site_list) = IF ListedExplicit \cup ListedDetected # {}
                                THEN ListedExplicit \cup ListedDetected
                                ELSE {DefaultSite}
        /\ \A i, j \in DOMAIN site_list : i < j => LexLess(site_list[i], site_list[j])

\* an explicit list and a detected site that is not on it
C19_Witness ==
    /\ site_list # <<>>
    /\ ListedExplicit # {}
    /\ ListedDetected \ ListedExplicit # {}
    /\ ListedExplicit \ ListedDetected # {}
    /\ Len(site_list) >= 2

\* ------------------------------------------------------------------ claims on the credentials
\* the value the environment holds for the first of the names that has one
EnvValue(names) ==
    IF \E i \in DOMAIN names : Get(environ, names[i], NoValue) # NoValue
      THEN LET i == CHOOSE h \in DOMAIN names :
                        /\ Get(environ, names[h], NoValue) # NoValue
                        /\ \A g \in 1..(h - 1) : Get(environ, names[g], NoValue) = NoValue
           IN  environ[names[i]]
      ELSE NoValue

\* the credentials each tier holds for the site of site_config
ConfigEnvKey == Replace(site_config.site_key, "-", "_")
SiteTier ==
    [url |-> EnvValue(<<SiteVarName("WP_BASE_URL", ConfigEnvKey),
                        SiteVarName("WP_URL", ConfigEnvKey)>>),
     user |-> EnvValue(<<SiteVarName("WP_USERNAME", ConfigEnvKey)>>),
     pass |-> EnvValue(<<SiteVarName("WP_APP_PASSWORD", ConfigEnvKey)>>)]
DefaultTier ==
    [url |-> EnvValue(<<VarName("WP_BASE_URL"), VarName("WP_URL")>>),
     user |-> EnvValue(<<VarName("WP_USERNAME")>>),
     pass |-> EnvValue(<<VarName("WP_APP_PASSWORD")>>)]
Complete(tier) == tier.url # NoValue /\ tier.user # NoValue /\ tier.pass # NoValue
Credentials ==
    [url |-> site_config.wp_base_url,
     user |-> site_config.wp_username,
     pass |-> site_config.wp_app_password]

\* C20: a site's credentials are those of the first tier, in the order
\* site-specific, global default, secret store, that supplies a complete set
\* (URL, username, password); a lower tier is used only when every higher
\* tier is incomplete, never mixed with it; when no tier is complete the site
\* has no credentials and is in dry-run.
C20_CredentialsByPriority ==
    site_config # None =>
        /\ Complete(SiteTier) =>
               Credentials = SiteTier /\ site_config.source = "site-specific"
        /\ (~Complete(SiteTier) /\ Complete(DefaultTier)) =>
               Credentials = DefaultTier /\ site_config.source = "default"
        /\ site_config.source = "default" => ~Complete(SiteTier)
        /\ site_config.source = "api" => ~Complete(SiteTier) /\ ~Complete(DefaultTier)
        /\ (~Complete(SiteTier) /\ ~Complete(DefaultTier)
              /\ load_wp_config_from_api(site_config.site_key) = None) =>
               /\ Credentials = [url |-> NoValue, user |-> NoValue, pass |-> NoValue]
               /\ ~HasWordpressConfig(site_config)
        /\ HasWordpressConfig(site_config) <=> site_config.source # "none"

\* a site whose own variables give a URL and a password but no username,
\* resolved to the complete global default
C20_Witness ==
    /\ site_config # None
    /\ SiteTier.url # NoValue
    /\ SiteTier.pass # NoValue
    /\ ~Complete(SiteTier)
    /\ Complete(DefaultTier)
    /\ Credentials = DefaultTier

\* ------------------------------------------------------------------ claims on the batch
ParallelBatch == parallel /\ Len(self_sites) > 1

ResultsFor(k) == {i \in DOMAIN results : results[i].site = k}

\* C21 as stated: in a parallel batch no site task writes configuration state
\* another task can observe: the process environment stays as it was when the
\* batch started, and the SiteConfig of every task is the one the environment
\* of the batch's start gives its site.
C21_SiteTasksShareNoConfigState ==
    (ParallelBatch /\ batch_pc \in {"running", "done"}) =>
        /\ environ = environ_at_start
        /\ \A i \in DOMAIN self_sites :
               task_config[i] # None =>
                   task_config[i] = load_site_config(environ_at_start, self_sites[i])

\* C22 as stated: the jitter delay is applied at most once per batch, by
\* run_all_sites before any site starts, and no site run sleeps a jitter
\* delay of its own.
C22_JitterOncePerBatch ==
    /\ jitter_delays.batch <= 1
    /\ \A i \in DOMAIN jitter_delays.site : jitter_delays.site[i] = 0

\* C24: in parallel mode at most max_workers site runs are in progress at the
\* same time, however many sites the batch has.
C24_AtMostMaxWorkersRunning ==
    parallel =>
        Cardinality({i \in DOMAIN self_sites : InProgress(i)}) <= max_workers

\* a batch with more sites than workers, the pool full and a site waiting
C24_Witness ==
    /\ ParallelBatch
    /\ Len(self_sites) > max_workers
    /\ Cardinality({i \in DOMAIN self_sites : InProgress(i)}) = max_workers
    /\ \E i \in DOMAIN self_sites : task_pc[i] = "pending"

\* self.results had the sites finished in submission order
RECURSIVE ResultsInOrder(_)
ResultsInOrder(n) ==
    IF n = 0 THEN <<>>
    ELSE DictSet(ResultsInOrder(n - 1), self_sites[n], task_result[n])

\* two summaries that differ at most in the order of the keys of site_results
SameSummary(x, y) ==
    /\ x.multisite_execution = y.multisite_execution
    /\ x.aggregate_stats = y.aggregate_stats
    /\ Range(x.site_results) = Range(y.site_results)
    /\ x.log_files = y.log_files

\* C25 as stated: when a parallel batch ends, the results hold exactly one
\* entry per site of the batch, under the site's key and holding the outcome
\* of that site's run, and the summary is the one any other completion order
\* gives, the submission order among them.
C25_ResultsKeyedSummaryOrderFree ==
    (ParallelBatch /\ batch_pc = "done") =>
        /\ \A i \in DOMAIN self_sites :
               /\ Cardinality(ResultsFor(self_sites[i])) = 1
               /\ \A r \in ResultsFor(self_sites[i]) : results[r].result = task_result[i]
        /\ {results[r].site : r \in DOMAIN results} = Range(self_sites)
        /\ SameSummary(batch_summary,
                       generate_summary(ResultsInOrder(Len(self_sites)), parallel))

\* C26: a site's run that raises never aborts the batch, in sequential and in
\* parallel mode: in the step in which a run raises, the site is recorded as
\* failed with its error and the batch goes on; the batch ends only when
\* every site of it has run, and then every site has a result.
C26_SiteFailureNeverAbortsBatch ==
    [][ /\ \A i \in DOMAIN self_sites :
               (task_pc[i] = "running" /\ task_pc'[i] = "raised") =>
                   /\ batch_pc' = "running"
                   /\ \E r \in DOMAIN results' :
                          /\ results'[r].site = self_sites[i]
                          /\ results'[r].result.failed_stages = 1
                          /\ results'[r].result.total_stages = 0
                          /\ "error" \in DOMAIN results'[r].result
        /\ batch_pc' \in {"called", "running", "done"}
        /\ batch_pc' = "done" =>
               \A i \in DOMAIN self_sites :
                   /\ task_pc'[i] \in {"returned", "raised"}
                   /\ \E r \in DOMAIN results' : results'[r].site = self_sites[i]
      ]_vars

\* a batch over, one site's run raised and a site after it returned its summary
C26_Witness ==
    /\ batch_pc = "done"
    /\ \E i, j \in DOMAIN self_sites :
           /\ i < j
           /\ self_sites[i] # self_sites[j]
           /\ task_pc[i] = "raised"
           /\ task_pc[j] = "returned"
           /\ \E r \in DOMAIN results :
                  results[r].site = self_sites[j] /\ results[r].result = task_result[j]

\* ------------------------------------------------------------------ claims on deduplication
HasTitle(topic) == Get(topic, "title", "") # ""

\* the positions deduplication keeps: the first topic of each title that is
\* not an existing title
FirstOccurrences ==
    {i \in DOMAIN generated_topics :
        /\ HasTitle(generated_topics[i])
        /\ generated_topics[i].title \notin existing_titles
        /\ \A j \in 1..(i - 1) :
               Get(generated_topics[j], "title", "") # generated_topics[i].title}

\* C23: the topics deduplication returns have pairwise distinct titles, none
\* of them an existing title, and they are the first topic of each such title,
\* in input order (a topic without a title is left out).
C23_DedupKeepsFirstOccurrences ==
    dedup_pc = "returned" =>
        /\ \A i, j \in DOMAIN unique_topics :
               i # j => unique_topics[i].title # unique_topics[j].title
        /\ \A i \in DOMAIN unique_topics :
               /\ HasTitle(unique_topics[i])
               /\ unique_topics[i].title \notin existing_titles
               /\ unique_topics[i] = generated_topics[unique_topics[i].id]
        /\ {unique_topics[i].id : i \in DOMAIN unique_topics} = FirstOccurrences
        /\ \A i, j \in DOMAIN unique_topics :
               i < j => unique_topics[i].id < unique_topics[j].id

\* a title generated twice, another title that exists already, and a third
\* topic kept after them
C23_Witness ==
    /\ dedup_pc = "returned"
    /\ \E i, j \in DOMAIN generated_topics :
           /\ i < j
           /\ HasTitle(generated_topics[i])
           /\ Get(generated_topics[j], "title", "") = generated_topics[i].title
           /\ generated_topics[i] \in Range(unique_topics)
    /\ \E i \in DOMAIN generated_topics :
           Get(generated_topics[i], "title", "") \in existing_titles
    /\ Len(unique_topics) < Len(generated_topics)

\* ------------------------------------------------------------------ claims on the site run
FailedTopics == {k \in DOMAIN processed : ~processed[k].ok}

C29_NoCredentialsGivesDryRun ==
    /\ \A k \in DOMAIN create_post_log :
           ~create_post_log[k].configured =>
               /\ ~create_post_log[k].call.raised
               /\ ~create_post_log[k].call.sent
               /\ \E t \in DOMAIN unique_topics :
                      /\ unique_topics[t].id = create_post_log[k].topic
                      /\ create_post_log[k].call.result =
                             [id |-> "dry-run", link |-> "https://example.com/dry-run-post",
                              status |-> "draft",
                              title |-> [rendered |-> unique_topics[t].title]]
    /\ Len(wp_requests) =
           Cardinality({k \in DOMAIN create_post_log : create_post_log[k].configured})

\* a run that made a dry-run call without credentials and counted no draft
C29_Witness ==
    /\ run_pc = "exited"
    /\ \E k \in DOMAIN create_post_log : ~create_post_log[k].configured
    /\ wp_requests = <<>>
    /\ drafts_created = 0
    /\ publish_errors = 0

\* ------------------------------------------------------------------ claims on HTTP calls
Transient(status) == status = 429 \/ status >= 500

\* C30 as stated: a call that gets a transient response (429 or 5xx) is sent
\* again, at most RetryTotal times; a response that is a non-transient error
\* is never followed by another attempt and leaves the call at once as an
\* error that carries the status code and the body.
C30_TransientRetriedOthersSurfaced ==
    /\ Len(http_responses) <= RetryTotal + 1
    /\ http_pc \in {"returned", "raised"} =>
           \A i \in DOMAIN http_responses :
               /\ (Transient(http_responses[i]) /\ i <= RetryTotal) =>
                      i < Len(http_responses)
               /\ (~Transient(http_responses[i]) /\ http_responses[i] >= 400) =>
                      /\ i = Len(http_responses)
                      /\ http_pc = "raised"
                      /\ "status_code" \in DOMAIN http_error
                      /\ http_error.status_code = http_responses[i]
                      /\ "response_body" \in DOMAIN http_error

\* ------------------------------------------------------------------ claims on single calls
LacksRequiredField(topic) == \E j \in DOMAIN RequiredFields : RequiredFields[j] \notin DOMAIN topic

\* C31: once bulk_create_topics has acted on a batch in which some topic
\* lacks siteId, categoryId or title, it has raised a ValueError and no
\* request was sent.
C31_InvalidBatchRejectedBeforeRequest ==
    (/\ bulk_pc \notin {"idle", "called"}
     /\ \E i \in DOMAIN bulk_topics : LacksRequiredField(bulk_topics[i]))
    => /\ bulk_pc = "raised"
       /\ bulk_result.type = "ValueError"
       /\ http_pc = "idle"
       /\ http_responses = <<>>
       /\ http_payload = None

\* a batch whose first topic is complete and whose second lacks a field was
\* rejected
C31_Witness ==
    /\ bulk_pc = "raised"
    /\ Len(bulk_topics) = 2
    /\ ~LacksRequiredField(bulk_topics[1])
    /\ LacksRequiredField(bulk_topics[2])
    /\ bulk_result.type = "ValueError"
    /\ bulk_result.index = 1

\* the text 'a-b' of two numbers
IsRangeText(s) ==
    \E i \in DOMAIN s :
        /\ s[i] = "-"
        /\ IsDigits(SubSeq(s, 1, i - 1))
        /\ IsDigits(SubSeq(s, i + 1, Len(s)))

RangeLow(s) == DigitsValue(SubSeq(s, 1, Least({i \in DOMAIN s : s[i] = "-"}) - 1))
RangeHigh(s) == DigitsValue(SubSeq(s, Least({i \in DOMAIN s : s[i] = "-"}) + 1, Len(s)))

\* C32 as stated: the pair get_topic_count_range returns has min <= max; a
\* number n gives (n, n), a range 'a-b' with a <= b gives (a, b), and a
\* reversed range or a text that is neither gives (5, 5).
C32_TopicCountRangeWellFormed ==
    count_pc = "returned" =>
        /\ count_range[1] <= count_range[2]
        /\ IsDigits(count_text) =>
               count_range = <<DigitsValue(count_text), DigitsValue(count_text)>>
        /\ (IsRangeText(count_text) /\ RangeLow(count_text) <= RangeHigh(count_text)) =>
               count_range = <<RangeLow(count_text), RangeHigh(count_text)>>
        /\ (IsRangeText(count_text) /\ RangeLow(count_text) > RangeHigh(count_text)) =>
               count_range = <<DefaultTopicCount, DefaultTopicCount>>
        /\ (~IsRangeText(count_text) /\ ~IntParses(count_text)) =>
               count_range = <<DefaultTopicCount, DefaultTopicCount>>

TopicsOfCategory(cat) == Cardinality({j \in DOMAIN gen_topics : gen_topics[j].categoryId = cat})

\* C33 as stated: for a site with at least one category and a count >= 1,
\* generate_topics_for_site returns exactly count topics, and the numbers of
\* topics of two categories differ by at most one.
C33_ExactlyCountTopicsSpreadEvenly ==
    (gen_pc = "returned" /\ gen_site.categories # <<>> /\ gen_count >= 1) =>
        /\ Len(gen_topics) = gen_count
        /\ \A c1, c2 \in Range(gen_site.categories) :
               TopicsOfCategory(c1) - TopicsOfCategory(c2) <= 1

\* ------------------------------------------------------------------ claims on the topic count
ConfigLoaded == \E i \in DOMAIN pipeline_log : pipeline_log[i].stage = "config_loaded"

\* C34 as stated: the topic count _run_site hands to the run of a site, the
\* override of the batch, is the count the run generates topics for: the run
\* gets as far as its topic count and actual_topic_count is the override.
C34_OverrideIsTheTopicCount ==
    run_pc \in {"returned", "exited"} =>
        /\ ConfigLoaded
        /\ actual_topic_count = run_args.topic_count

\* ------------------------------------------------------------------ claims on merged ranges
RangesWellFormed(rules) ==
    \A s \in DOMAIN rules : \A f \in DOMAIN rules[s] :
        FieldKind(f) = "range" => rules[s][f].min <= rules[s][f].max

\* C35 as stated: the rules a research update saves have well-formed ranges
\* (min <= max) whenever the rules it started from had.
C35_MergedRangeWellFormed ==
    \A i \in 2..Len(history) :
        (/\ history[i].research_metadata.update_method = "research"
         /\ RangesWellFormed(history[i - 1].rules))
        => RangesWellFormed(history[i].rules)

\* ------------------------------------------------------------------ claims on the job run
JobFinishCalls == {i \in DOMAIN api_calls : api_calls[i] = "job_run_finish"}

C37_FailedStagesWithinTotal ==
    /\ \A r \in DOMAIN results :
           results[r].result.failed_stages <= results[r].result.total_stages
    /\ batch_pc = "done" =>
           batch_summary.aggregate_stats.total_failed_stages
               <= batch_summary.aggregate_stats.total_pipeline_stages

SiteVarsRead(site_key) ==
    {SiteVarName(base, Replace(site_key, "-", "_")) : base \in SiteVarBases} \cap DOMAIN environ

\* C40 as stated: the key detected from the variables load_site_config read
\* for a site key is that key, and no two keys of the site list read the
\* same variables.
C40_SiteKeyRoundTrips ==
    /\ site_config # None =>
           detect_sites_from_env([n \in SiteVarsRead(site_config.site_key) |-> environ[n]])
               \subseteq {site_config.site_key}
    /\ \A i, j \in DOMAIN site_list :
           Replace(site_list[i], "-", "_") = Replace(site_list[j], "-", "_") => i = j

====
